---- MODULE Spec2Model ----
(***************************************************************************)
(* BlockTracker (src/unnamed/part_007): one analytics session per tracker, *)
(* its events, its sinks (the postMessage channel and the registered       *)
(* callbacks), its localStorage record and its progress timer; and the     *)
(* RegisteredContent registry (src/unnamed/part_006).                      *)
(*                                                                         *)
(* Every public method is a pure operator from a world record to a world   *)
(* record, so that a call made by a callback from inside sendEvent is part *)
(* of the step of the call that emitted the event.  A world carries the    *)
(* fields of every tracker, the browser objects the code touches and the   *)
(* field exc, which is TRUE while an exception is propagating.             *)
(***************************************************************************)
EXTENDS Integers, Sequences, FiniteSets, TLC

\* ------------------------------------------------------------------ bounds
\* Calls that pass their guard (constructions included) in one behaviour.
MaxCalls == 4
\* The last value of the clock; Date.now() starts at 1.
MaxTime == 2
\* How deep a callback may call back into the tracker from inside sendEvent.
MaxDepth == 1
\* Calls during which localStorage or postMessage throws, in one behaviour.
MaxFaults == 1
\* Renders, user events and host messages of the editable elements.
MaxEvents == 5

Trackers == {"t1", "t2"}
QuestionIds == {"q1", "q2"}
StoreIds == {"s1", "s2"}
\* cbLog returns, cbThrow throws, cbReenter calls a method of the tracker.
Callbacks == {"cbLog", "cbThrow", "cbReenter"}

\* ---------------------------------------------------------- optional values
\* undefined is the empty tuple, a defined value v is <<v>>.
Undefined == << >>
Some(v) == <<v>>
IsDefined(o) == o # Undefined
Get(o) == o[1]
\* a ?? b
Coalesce(o, d) == IF IsDefined(o) THEN Get(o) ELSE d

VARIABLES
  constructed,        \* tracker -> the constructor has run
  config,             \* tracker -> this.config
  state,              \* tracker -> this.state (SessionState)
  isCompleted,        \* tracker -> this.isCompleted
  eventSenders,       \* tracker -> this.eventSenders
  progressTimer,      \* tracker -> this.progressTimer (Undefined or Some(handle))
  intervals,          \* window: the handles of the running intervals
  timerSeq,           \* window: handles given out so far
  localStorage,       \* window.localStorage: key -> stored text
  posted,             \* what window.parent received, in order
  received,           \* callback -> what it was called with, in order
  registeredContents, \* window.registeredContents: store id -> instance
  contents,           \* the RegisteredContent instances constructed so far
  now,                \* Date.now()
  sessionSeq,         \* session ids generated so far
  faults,             \* calls made so far while the browser was throwing
  raised,             \* some operation threw to its caller
  callSeq,            \* history: calls that passed their guard so far
  callLog,            \* history: tracker -> those calls, in call order
  restored,           \* history: tracker -> the state its constructor adopted
  elements,           \* EditableText instance -> its props, state and effect
  listeners,          \* window: the 'message' listeners of the instances, in order
  framed,             \* window.parent !== window
  outbox,             \* history: what the instances posted, in order
  eventSeq,           \* history: renders, user events and host messages so far
  lastEvent           \* history: the latest of them

vars == <<constructed, config, state, isCompleted, eventSenders, progressTimer,
          intervals, timerSeq, localStorage, posted, received, registeredContents,
          contents, now, sessionSeq, faults, raised, callSeq,
          callLog, restored, elements, listeners, framed, outbox, eventSeq, lastEvent>>

editableVars == <<elements, listeners, framed, outbox, eventSeq, lastEvent>>

coreVars == <<constructed, config, state, isCompleted, eventSenders, progressTimer,
              intervals, timerSeq, localStorage, posted, received, registeredContents,
              contents, now, sessionSeq, faults, raised, callSeq, callLog, restored>>

trackerVars == <<constructed, config, state, isCompleted, eventSenders,
                 progressTimer, intervals, timerSeq, localStorage, received,
                 sessionSeq, callLog, restored>>

\* The world the operators below work on: the variables, what the browser
\* does during the step (fault: "storage" when every localStorage access
\* throws, "postMessage" when every postMessage throws; reaction: what
\* cbReenter does) and exc.
World ==
  [constructed |-> constructed, config |-> config, state |-> state,
   isCompleted |-> isCompleted, eventSenders |-> eventSenders,
   progressTimer |-> progressTimer, intervals |-> intervals, timerSeq |-> timerSeq,
   localStorage |-> localStorage, posted |-> posted, received |-> received,
   registeredContents |-> registeredContents, contents |-> contents, now |-> now,
   sessionSeq |-> sessionSeq, callSeq |-> callSeq,
   callLog |-> callLog, restored |-> restored,
   fault |-> "none", reaction |-> [op |-> "none"], exc |-> FALSE]

StorageThrows(w) == w.fault = "storage"
PostMessageThrows(w) == w.fault = "postMessage"

\* The step to world w; an exception still propagating has reached the caller.
Commit(w) ==
  /\ constructed' = w.constructed
  /\ config' = w.config
  /\ state' = w.state
  /\ isCompleted' = w.isCompleted
  /\ eventSenders' = w.eventSenders
  /\ progressTimer' = w.progressTimer
  /\ intervals' = w.intervals
  /\ timerSeq' = w.timerSeq
  /\ localStorage' = w.localStorage
  /\ posted' = w.posted
  /\ received' = w.received
  /\ registeredContents' = w.registeredContents
  /\ contents' = w.contents
  /\ sessionSeq' = w.sessionSeq
  /\ callSeq' = w.callSeq
  /\ callLog' = w.callLog
  /\ restored' = w.restored
  /\ raised' = (raised \/ w.exc)
  /\ faults' = IF w.fault # "none" /\ w.callSeq # callSeq THEN faults + 1 ELSE faults
  /\ UNCHANGED <<now, editableVars>>

\* ------------------------------------------------------------ configuration
\* The default of progressUpdateInterval.
DefaultProgressUpdateInterval == 5000

\* A BlockTrackerConfig as the caller passes it: every field optional.
\* slideId, courseId and interactionDebounce are copied and never read by the
\* operations below.
NoConfig ==
  [blockId |-> Undefined, trackInteractions |-> Undefined,
   trackQuestions |-> Undefined, sendDetailedEvents |-> Undefined,
   sendSummaryEvent |-> Undefined, sendLegacyEvent |-> Undefined,
   progressUpdateInterval |-> Undefined, persistSession |-> Undefined,
   sessionStorageKey |-> Undefined]

\* config.blockId || '' : undefined and the empty string both give ''.
OrEmpty(o) == IF IsDefined(o) /\ Get(o) # "" THEN Get(o) ELSE ""

\* `blockTracker_${config.blockId || 'anonymous'}`
DefaultStorageKey(blockId) ==
  "blockTracker_" \o (IF IsDefined(blockId) /\ Get(blockId) # "" THEN Get(blockId) ELSE "anonymous")

\* The Required<BlockTrackerConfig> the constructor builds.
ResolveConfig(c) ==
  [blockId |-> OrEmpty(c.blockId),
   trackInteractions |-> Coalesce(c.trackInteractions, TRUE),
   trackQuestions |-> Coalesce(c.trackQuestions, TRUE),
   sendDetailedEvents |-> Coalesce(c.sendDetailedEvents, TRUE),
   sendSummaryEvent |-> Coalesce(c.sendSummaryEvent, TRUE),
   sendLegacyEvent |-> Coalesce(c.sendLegacyEvent, TRUE),
   progressUpdateInterval |-> Coalesce(c.progressUpdateInterval, DefaultProgressUpdateInterval),
   persistSession |-> Coalesce(c.persistSession, FALSE),
   sessionStorageKey |-> Coalesce(c.sessionStorageKey, DefaultStorageKey(c.blockId))]

\* ------------------------------------------------------------- SessionState
StateFields ==
  {"sessionId", "blockId", "startTime", "interactions", "questions", "slides",
   "currentQuestionId", "currentQuestionStartTime",
   "totalInteractions", "totalQuestions", "correctQuestions"}

\* The new session of restoreOrCreateSession.
NewSession(sessionId, blockId, startTime) ==
  [sessionId |-> sessionId, blockId |-> blockId, startTime |-> startTime,
   interactions |-> << >>, questions |-> << >>, slides |-> << >>,
   currentQuestionId |-> Undefined, currentQuestionStartTime |-> Undefined,
   totalInteractions |-> 0, totalQuestions |-> 0, correctQuestions |-> 0]

\* this.state before the constructor has run.
NoSession == NewSession("", "", 0)

\* `session_${Date.now()}_${Math.random().toString(36).substring(2, 9)}`: the
\* random part is modelled as never repeating.
SessionId(time, n) == "session_" \o ToString(time) \o "_" \o ToString(n)

\* -------------------------------------------------------------------- JSON
\* JSON.stringify of an object leaves out the properties whose value is
\* undefined; reading a property the parsed object does not have gives
\* undefined.  OptionalFields are the properties the code leaves undefined.
OptionalFields ==
  {"currentQuestionId", "currentQuestionStartTime", "timeToAnswer", "isCorrect",
   "hintsUsed", "score", "maxScore"}

StringifyObject(o) ==
  LET kept == {f \in DOMAIN o : ~(f \in OptionalFields /\ o[f] = Undefined)}
  IN [f \in kept |-> IF f \in OptionalFields THEN Get(o[f]) ELSE o[f]]

StringifyList(events) == [i \in 1..Len(events) |-> StringifyObject(events[i])]

\* JSON.stringify(this.state)
Stringify(s) ==
  LET flat == [s EXCEPT !.interactions = StringifyList(s.interactions),
                        !.questions = StringifyList(s.questions)]
  IN StringifyObject(flat)

\* The object read back, property by property, as the code reads it.
ParseObject(text, fields) ==
  [f \in fields |-> IF f \in DOMAIN text
                    THEN (IF f \in OptionalFields THEN Some(text[f]) ELSE text[f])
                    ELSE Undefined]

InteractionFields == {"type", "blockId", "sessionId", "elementId", "timestamp"}
QuestionFields ==
  {"type", "eventType", "blockId", "sessionId", "questionId", "timestamp",
   "timeToAnswer", "isCorrect", "hintsUsed"}

\* JSON.parse(stored) as SessionState
Parse(text) ==
  LET o == ParseObject(text, StateFields)
  IN [o EXCEPT
        !.interactions = [i \in 1..Len(o.interactions) |-> ParseObject(o.interactions[i], InteractionFields)],
        !.questions = [i \in 1..Len(o.questions) |-> ParseObject(o.questions[i], QuestionFields)]]

\* ------------------------------------------------------------------ events
Range(f) == {f[i] : i \in DOMAIN f}

InteractionEvent(w, t, elementId) ==
  [type |-> "BLOCK_INTERACTION", blockId |-> w.config[t].blockId,
   sessionId |-> w.state[t].sessionId, elementId |-> elementId,
   timestamp |-> w.now]

QuestionEvent(w, t, eventType, questionId, timeToAnswer, isCorrect, hintsUsed) ==
  [type |-> "BLOCK_QUESTION", eventType |-> eventType,
   blockId |-> w.config[t].blockId, sessionId |-> w.state[t].sessionId,
   questionId |-> questionId, timestamp |-> w.now,
   timeToAnswer |-> timeToAnswer, isCorrect |-> isCorrect, hintsUsed |-> hintsUsed]

RECURSIVE SumOver(_, _, _)
\* reduce((sum, q) => q.field || 0, 0): the sum is dropped at every event.
SumOverLast(events, field, i) ==
  IF i > Len(events) THEN 0
  ELSE IF i = Len(events) THEN Coalesce(events[i][field], 0)
  ELSE SumOver(events, field, i + 1)

\* events.reduce((sum, q) => sum + (q[field] || 0), 0)
SumOver(events, field, i) ==
  IF i > Len(events) THEN 0
  ELSE Coalesce(events[i][field], 0) + SumOver(events, field, i + 1)

IsAnswered(q) == q.eventType = "answered"
IsSkipped(q) == q.eventType = "skipped"
\* The filter that lets every answered event pass as correct.
IsCorrectAlways(q) == TRUE

\* q => q.isCorrect, on an event whose isCorrect may be undefined
IsCorrect(q) == Coalesce(q.isCorrect, FALSE)
IsIncorrect(q) == ~IsCorrect(q)
IsCorrectAnswer(q) == IsAnswered(q) /\ IsCorrect(q)

\* n / d, kept as the pair of its numerator and denominator
Ratio(n, d) == <<n, d>>

\* The summary of sendSessionEvent.
Summary(s, eventType, data, timeSpent) ==
  LET answeredQuestions == SelectSeq(s.questions, IsAnswered)
      correctQuestions == SelectSeq(answeredQuestions, IsCorrect)
      incorrectQuestions == SelectSeq(answeredQuestions, IsIncorrect)
      skippedQuestions == SelectSeq(s.questions, IsSkipped)
  IN [completed |-> (eventType = "completed"),
      score |-> data.score,
      maxScore |-> data.maxScore,
      timeSpent |-> timeSpent,
      totalInteractions |-> s.totalInteractions,
      questionsAttempted |-> Len(answeredQuestions) + Len(skippedQuestions),
      questionsCorrect |-> Len(correctQuestions),
      questionsIncorrect |-> Len(incorrectQuestions),
      questionsSkipped |-> Len(skippedQuestions),
      averageTimePerQuestion |->
        IF Len(answeredQuestions) > 0
        THEN Some(Ratio(SumOver(answeredQuestions, "timeToAnswer", 1), Len(answeredQuestions)))
        ELSE Undefined,
      accuracyRate |->
        IF Len(answeredQuestions) > 0
        THEN Some(Ratio(Len(correctQuestions), Len(answeredQuestions)))
        ELSE Undefined,
      hintsUsedTotal |-> SumOver(s.questions, "hintsUsed", 1)]

\* The data argument of sendSessionEvent when the caller passes none.
NoData == [score |-> Undefined, maxScore |-> Undefined, timeSpent |-> Undefined]

\* The BlockSessionEvent of sendSessionEvent.
\* sendSessionEvent attaching the details to every session event.
SessionEventDetailed(w, t, eventType, data) ==
  LET s == w.state[t]
      timeSpent == Coalesce(data.timeSpent, w.now - s.startTime)
  IN [type |-> "BLOCK_SESSION", eventType |-> eventType,
      blockId |-> w.config[t].blockId, sessionId |-> s.sessionId,
      timestamp |-> w.now,
      summary |-> Summary(s, eventType, data, timeSpent),
      details |-> Some([interactions |-> s.interactions, questions |-> s.questions,
                        slides |-> s.slides])]

SessionEvent(w, t, eventType, data) ==
  LET s == w.state[t]
      timeSpent == Coalesce(data.timeSpent, w.now - s.startTime)
  IN [type |-> "BLOCK_SESSION", eventType |-> eventType,
      blockId |-> w.config[t].blockId, sessionId |-> s.sessionId,
      timestamp |-> w.now,
      summary |-> Summary(s, eventType, data, timeSpent),
      details |->
        IF eventType = "completed" /\ w.config[t].sendSummaryEvent
        THEN Some([interactions |-> s.interactions, questions |-> s.questions,
                   slides |-> s.slides])
        ELSE Undefined]

\* The legacy event without the score.
LegacyEventUnscored(score, maxScore, timeSpent) ==
  [type |-> "BLOCK_COMPLETION", completed |-> TRUE, score |-> Undefined,
   maxScore |-> maxScore, timeSpent |-> Some(timeSpent)]

\* The LegacyBlockCompletionEvent of sendLegacyCompletion.
LegacyEvent(score, maxScore, timeSpent) ==
  [type |-> "BLOCK_COMPLETION", completed |-> TRUE, score |-> score,
   maxScore |-> maxScore, timeSpent |-> Some(timeSpent)]

\* ----------------------------------------------------------------- storage
\* A stored text that is no JSON: JSON.parse throws on it.
Malformed == [malformed |-> TRUE]
Parses(text) == text # Malformed

\* restoreOrCreateSession adopting whatever parses, whatever its blockId.
StoredSessionAnyBlock(w, t) ==
  LET key == w.config[t].sessionStorageKey
  IN IF StorageThrows(w) \/ key \notin DOMAIN w.localStorage THEN Undefined
     ELSE IF ~Parses(w.localStorage[key]) THEN Undefined
     ELSE Some(Parse(w.localStorage[key]))

\* localStorage.getItem(key) inside the try of restoreOrCreateSession: the
\* stored state to adopt, or Undefined (no item, an item that does not parse,
\* another block's item, or the access threw; the catch logs what is thrown).
StoredSession(w, t) ==
  LET key == w.config[t].sessionStorageKey
  IN IF StorageThrows(w) \/ key \notin DOMAIN w.localStorage THEN Undefined
     ELSE IF ~Parses(w.localStorage[key]) THEN Undefined
     ELSE LET parsed == Parse(w.localStorage[key])
          IN IF parsed.blockId = w.config[t].blockId THEN Some(parsed) ELSE Undefined

\* restoreOrCreateSession that never adopts what is stored.
RestoreOrCreateSessionFresh(w, t) ==
  LET new == NewSession(SessionId(w.now, w.sessionSeq + 1), w.config[t].blockId, w.now)
  IN [w EXCEPT !.state[t] = new, !.restored[t] = new, !.sessionSeq = @ + 1]

RestoreOrCreateSession(w, t) ==
  LET found == IF w.config[t].persistSession THEN StoredSession(w, t) ELSE Undefined
  IN IF IsDefined(found)
     THEN [w EXCEPT !.state[t] = Get(found), !.restored[t] = Get(found)]
     ELSE LET new == NewSession(SessionId(w.now, w.sessionSeq + 1),
                                w.config[t].blockId, w.now)
          IN [w EXCEPT !.state[t] = new, !.restored[t] = new,
                       !.sessionSeq = @ + 1]

\* persistSession writing the state without its event lists.
PersistSessionShallow(w, t) ==
  IF ~w.config[t].persistSession THEN w
  ELSE IF StorageThrows(w) THEN w
  ELSE LET key == w.config[t].sessionStorageKey
           text == Stringify([w.state[t] EXCEPT !.interactions = << >>, !.questions = << >>])
       IN [w EXCEPT !.localStorage =
             [k \in DOMAIN @ \cup {key} |-> IF k = key THEN text ELSE @[k]]]

\* localStorage.setItem throws inside the try; the catch logs and returns.
PersistSession(w, t) ==
  IF ~w.config[t].persistSession THEN w
  ELSE IF StorageThrows(w) THEN w
  ELSE LET key == w.config[t].sessionStorageKey
           text == Stringify(w.state[t])
       IN [w EXCEPT !.localStorage =
             [k \in DOMAIN @ \cup {key} |-> IF k = key THEN text ELSE @[k]]]

ClearPersistedSession(w, t) ==
  IF ~w.config[t].persistSession THEN w
  ELSE IF StorageThrows(w) THEN w
  ELSE LET key == w.config[t].sessionStorageKey
       IN [w EXCEPT !.localStorage = [k \in DOMAIN @ \ {key} |-> @[k]]]

\* ------------------------------------------------------------------ timer
StartProgressUpdates(w, t) ==
  LET handle == w.timerSeq + 1
  IN [w EXCEPT !.timerSeq = handle, !.progressTimer[t] = Some(handle),
               !.intervals = @ \cup {handle}]

\* complete and abandon leaving the interval running.
ClearProgressTimerKeeps(w, t) == w

\* if (this.progressTimer) clearInterval(this.progressTimer)
ClearProgressTimer(w, t) ==
  IF IsDefined(w.progressTimer[t]) /\ Get(w.progressTimer[t]) # 0
  THEN [w EXCEPT !.intervals = @ \ {Get(w.progressTimer[t])}]
  ELSE w

\* -------------------------------------------------------------- emission
RECURSIVE SendEvent(_, _, _, _, _)

\* One entry of a sink's log: the event, the tracker it came from and the
\* ordinal of the call that created it.
Delivery(t, event, call) == [from |-> t, call |-> call, event |-> event]

\* window.postMessage(event, '*'); window.parent.postMessage(event, '*')
PostMessage(w, t, event, call) ==
  IF PostMessageThrows(w) THEN [w EXCEPT !.exc = TRUE]
  ELSE [w EXCEPT !.posted = Append(@, Delivery(t, event, call))]

\* The history entry of a call that passed its guard.
Called(w, t, op) ==
  [w EXCEPT !.callSeq = @ + 1,
            !.callLog[t] = Append(@, [op |-> op, call |-> w.callSeq + 1,
                                      fault |-> w.fault])]

\* `then` when no exception is propagating in w.
Unless(w, then(_)) == IF w.exc THEN w ELSE then(w)

\* ---------------------------------------------------------- public methods
\* depth is 0 for a call from the page and n + 1 for a call made by a callback
\* that handles an event of a call of depth n.  The caller passes the ordinal
\* of the call as elementId, so that every call has an element id of its own.
\* trackInteraction with unshift in place of push: the newest event first.
TrackInteractionUnshift(w, t, depth) ==
  IF ~w.config[t].trackInteractions \/ w.isCompleted[t] THEN w
  ELSE LET w0 == Called(w, t, "trackInteraction")
           event == InteractionEvent(w0, t, w0.callSeq)
           w1 == [w0 EXCEPT !.state[t].interactions = <<event>> \o @,
                            !.state[t].totalInteractions = @ + 1]
           w2 == IF w1.config[t].sendDetailedEvents
                 THEN SendEvent(w1, t, event, w0.callSeq, depth) ELSE w1
       IN Unless(w2, LAMBDA v : PersistSession(v, t))

\* trackInteraction keeping the event only when the write will succeed.
TrackInteractionIfStored(w, t, depth) ==
  IF ~w.config[t].trackInteractions \/ w.isCompleted[t] THEN w
  ELSE LET w0 == Called(w, t, "trackInteraction")
           event == InteractionEvent(w0, t, w0.callSeq)
           w1 == IF w0.config[t].persistSession /\ StorageThrows(w0) THEN w0
                 ELSE [w0 EXCEPT !.state[t].interactions = Append(@, event),
                                 !.state[t].totalInteractions = @ + 1]
           w2 == IF w1.config[t].sendDetailedEvents
                 THEN SendEvent(w1, t, event, w0.callSeq, depth) ELSE w1
       IN Unless(w2, LAMBDA v : PersistSession(v, t))

\* trackInteraction returning early when detailed events are off.
TrackInteractionOnlyDetailed(w, t, depth) ==
  IF ~w.config[t].trackInteractions \/ w.isCompleted[t] \/ ~w.config[t].sendDetailedEvents
  THEN w
  ELSE LET w0 == Called(w, t, "trackInteraction")
           event == InteractionEvent(w0, t, w0.callSeq)
           w1 == [w0 EXCEPT !.state[t].interactions = Append(@, event),
                            !.state[t].totalInteractions = @ + 1]
           w2 == SendEvent(w1, t, event, w0.callSeq, depth)
       IN Unless(w2, LAMBDA v : PersistSession(v, t))

TrackInteraction(w, t, depth) ==
  IF ~w.config[t].trackInteractions \/ w.isCompleted[t] THEN w
  ELSE LET w0 == Called(w, t, "trackInteraction")
           event == InteractionEvent(w0, t, w0.callSeq)
           w1 == [w0 EXCEPT !.state[t].interactions = Append(@, event),
                            !.state[t].totalInteractions = @ + 1]
           w2 == IF w1.config[t].sendDetailedEvents
                 THEN SendEvent(w1, t, event, w0.callSeq, depth) ELSE w1
       IN Unless(w2, LAMBDA v : PersistSession(v, t))

\* startQuestion guarding on trackQuestions alone.
StartQuestionAfterEnd(w, t, questionId, depth) ==
  IF ~w.config[t].trackQuestions THEN w
  ELSE LET w0 == Called(w, t, "startQuestion")
           event == QuestionEvent(w0, t, "started", questionId, Undefined, Undefined, Undefined)
           w1 == [w0 EXCEPT !.state[t].currentQuestionId = Some(questionId),
                            !.state[t].currentQuestionStartTime = Some(w0.now),
                            !.state[t].questions = Append(@, event)]
           w2 == IF w1.config[t].sendDetailedEvents
                 THEN SendEvent(w1, t, event, w0.callSeq, depth) ELSE w1
       IN Unless(w2, LAMBDA v : PersistSession(v, t))

\* startQuestion leaving a question that is open as the open one.
StartQuestionKeepingOpen(w, t, questionId, depth) ==
  IF ~w.config[t].trackQuestions \/ w.isCompleted[t] THEN w
  ELSE LET w0 == Called(w, t, "startQuestion")
           event == QuestionEvent(w0, t, "started", questionId, Undefined, Undefined, Undefined)
           open == IsDefined(w0.state[t].currentQuestionId)
           w1 == [w0 EXCEPT !.state[t].currentQuestionId =
                              IF open THEN @ ELSE Some(questionId),
                            !.state[t].currentQuestionStartTime =
                              IF open THEN @ ELSE Some(w0.now),
                            !.state[t].questions = Append(@, event)]
           w2 == IF w1.config[t].sendDetailedEvents
                 THEN SendEvent(w1, t, event, w0.callSeq, depth) ELSE w1
       IN Unless(w2, LAMBDA v : PersistSession(v, t))

StartQuestion(w, t, questionId, depth) ==
  IF ~w.config[t].trackQuestions \/ w.isCompleted[t] THEN w
  ELSE LET w0 == Called(w, t, "startQuestion")
           event == QuestionEvent(w0, t, "started", questionId, Undefined, Undefined, Undefined)
           w1 == [w0 EXCEPT !.state[t].currentQuestionId = Some(questionId),
                            !.state[t].currentQuestionStartTime = Some(w0.now),
                            !.state[t].questions = Append(@, event)]
           w2 == IF w1.config[t].sendDetailedEvents
                 THEN SendEvent(w1, t, event, w0.callSeq, depth) ELSE w1
       IN Unless(w2, LAMBDA v : PersistSession(v, t))

\* timeToAnswer measured from the open question whatever its id.
TimeToAnswerAnyQuestion(s, questionId, time) ==
  IF /\ IsDefined(s.currentQuestionId)
     /\ IsDefined(s.currentQuestionStartTime)
     /\ Get(s.currentQuestionStartTime) # 0
  THEN Some(time - Get(s.currentQuestionStartTime))
  ELSE Undefined

\* currentQuestionId === questionId && currentQuestionStartTime ? now - start : undefined
TimeToAnswer(s, questionId, time) ==
  IF /\ s.currentQuestionId = Some(questionId)
     /\ IsDefined(s.currentQuestionStartTime)
     /\ Get(s.currentQuestionStartTime) # 0
  THEN Some(time - Get(s.currentQuestionStartTime))
  ELSE Undefined

\* answerQuestion counting every answer as a correct one.
AnswerQuestionAllCorrect(w, t, questionId, isCorrect, hintsUsed, depth) ==
  IF ~w.config[t].trackQuestions \/ w.isCompleted[t] THEN w
  ELSE LET w0 == Called(w, t, "answerQuestion")
           timeToAnswer == TimeToAnswer(w0.state[t], questionId, w0.now)
           event == QuestionEvent(w0, t, "answered", questionId, timeToAnswer,
                                  Some(isCorrect), hintsUsed)
           w1 == [w0 EXCEPT !.state[t].questions = Append(@, event),
                            !.state[t].totalQuestions = @ + 1,
                            !.state[t].correctQuestions = @ + 1,
                            !.state[t].currentQuestionId = Undefined,
                            !.state[t].currentQuestionStartTime = Undefined]
           w2 == IF w1.config[t].sendDetailedEvents
                 THEN SendEvent(w1, t, event, w0.callSeq, depth) ELSE w1
       IN Unless(w2, LAMBDA v : PersistSession(v, t))

\* answerQuestion clearing the pointer only when it answers the open question.
AnswerQuestionKeepsOther(w, t, questionId, isCorrect, hintsUsed, depth) ==
  IF ~w.config[t].trackQuestions \/ w.isCompleted[t] THEN w
  ELSE LET w0 == Called(w, t, "answerQuestion")
           timeToAnswer == TimeToAnswer(w0.state[t], questionId, w0.now)
           event == QuestionEvent(w0, t, "answered", questionId, timeToAnswer,
                                  Some(isCorrect), hintsUsed)
           answersOpen == w0.state[t].currentQuestionId = Some(questionId)
           w1 == [w0 EXCEPT !.state[t].questions = Append(@, event),
                            !.state[t].totalQuestions = @ + 1,
                            !.state[t].correctQuestions = IF isCorrect THEN @ + 1 ELSE @,
                            !.state[t].currentQuestionId =
                              IF answersOpen THEN Undefined ELSE @,
                            !.state[t].currentQuestionStartTime =
                              IF answersOpen THEN Undefined ELSE @]
           w2 == IF w1.config[t].sendDetailedEvents
                 THEN SendEvent(w1, t, event, w0.callSeq, depth) ELSE w1
       IN Unless(w2, LAMBDA v : PersistSession(v, t))

AnswerQuestion(w, t, questionId, isCorrect, hintsUsed, depth) ==
  IF ~w.config[t].trackQuestions \/ w.isCompleted[t] THEN w
  ELSE LET w0 == Called(w, t, "answerQuestion")
           timeToAnswer == TimeToAnswer(w0.state[t], questionId, w0.now)
           event == QuestionEvent(w0, t, "answered", questionId, timeToAnswer,
                                  Some(isCorrect), hintsUsed)
           w1 == [w0 EXCEPT !.state[t].questions = Append(@, event),
                            !.state[t].totalQuestions = @ + 1,
                            !.state[t].correctQuestions = IF isCorrect THEN @ + 1 ELSE @,
                            !.state[t].currentQuestionId = Undefined,
                            !.state[t].currentQuestionStartTime = Undefined]
           w2 == IF w1.config[t].sendDetailedEvents
                 THEN SendEvent(w1, t, event, w0.callSeq, depth) ELSE w1
       IN Unless(w2, LAMBDA v : PersistSession(v, t))

\* skipQuestion closing the open question as answerQuestion does.
SkipQuestionClosing(w, t, questionId, depth) ==
  IF ~w.config[t].trackQuestions \/ w.isCompleted[t] THEN w
  ELSE LET w0 == Called(w, t, "skipQuestion")
           event == QuestionEvent(w0, t, "skipped", questionId, Undefined, Undefined, Undefined)
           w1 == [w0 EXCEPT !.state[t].questions = Append(@, event),
                            !.state[t].currentQuestionId = Undefined,
                            !.state[t].currentQuestionStartTime = Undefined]
           w2 == IF w1.config[t].sendDetailedEvents
                 THEN SendEvent(w1, t, event, w0.callSeq, depth) ELSE w1
       IN Unless(w2, LAMBDA v : PersistSession(v, t))

SkipQuestion(w, t, questionId, depth) ==
  IF ~w.config[t].trackQuestions \/ w.isCompleted[t] THEN w
  ELSE LET w0 == Called(w, t, "skipQuestion")
           event == QuestionEvent(w0, t, "skipped", questionId, Undefined, Undefined, Undefined)
           w1 == [w0 EXCEPT !.state[t].questions = Append(@, event)]
           w2 == IF w1.config[t].sendDetailedEvents
                 THEN SendEvent(w1, t, event, w0.callSeq, depth) ELSE w1
       IN Unless(w2, LAMBDA v : PersistSession(v, t))

SendSessionEvent(w, t, eventType, data, call, depth) ==
  SendEvent(w, t, SessionEvent(w, t, eventType, data), call, depth)

SendLegacyCompletion(w, t, score, maxScore, timeSpent, call, depth) ==
  SendEvent(w, t, LegacyEvent(score, maxScore, timeSpent), call, depth)

\* complete without the isCompleted guard.
CompleteUnguarded(w, t, score, maxScore, depth) ==
  LET w0 == Called(w, t, "complete")
      w1 == [w0 EXCEPT !.isCompleted[t] = TRUE]
      timeSpent == w1.now - w1.state[t].startTime
      w2 == SendSessionEvent(w1, t, "completed",
              [score |-> score, maxScore |-> maxScore, timeSpent |-> Some(timeSpent)],
              w0.callSeq, depth)
      w3 == Unless(w2, LAMBDA v : IF v.config[t].sendLegacyEvent
                                  THEN SendLegacyCompletion(v, t, score, maxScore, timeSpent,
                                                            w0.callSeq, depth)
                                  ELSE v)
      w4 == Unless(w3, LAMBDA v : ClearProgressTimer(v, t))
  IN Unless(w4, LAMBDA v : IF v.config[t].persistSession
                            THEN ClearPersistedSession(v, t) ELSE v)

Complete(w, t, score, maxScore, depth) ==
  IF w.isCompleted[t] THEN w
  ELSE LET w0 == Called(w, t, "complete")
           w1 == [w0 EXCEPT !.isCompleted[t] = TRUE]
           timeSpent == w1.now - w1.state[t].startTime
           w2 == SendSessionEvent(w1, t, "completed",
                   [score |-> score, maxScore |-> maxScore, timeSpent |-> Some(timeSpent)],
                   w0.callSeq, depth)
           w3 == Unless(w2, LAMBDA v : IF v.config[t].sendLegacyEvent
                                       THEN SendLegacyCompletion(v, t, score, maxScore, timeSpent,
                                                                 w0.callSeq, depth)
                                       ELSE v)
           w4 == Unless(w3, LAMBDA v : ClearProgressTimer(v, t))
       IN Unless(w4, LAMBDA v : IF v.config[t].persistSession
                                 THEN ClearPersistedSession(v, t) ELSE v)

\* abandon removing the record as complete does.
AbandonClearing(w, t, depth) ==
  IF w.isCompleted[t] THEN w
  ELSE LET w0 == Called(w, t, "abandon")
           w1 == [w0 EXCEPT !.isCompleted[t] = TRUE]
           timeSpent == w1.now - w1.state[t].startTime
           w2 == SendSessionEvent(w1, t, "abandoned",
                   [NoData EXCEPT !.timeSpent = Some(timeSpent)], w0.callSeq, depth)
           w3 == Unless(w2, LAMBDA v : ClearProgressTimer(v, t))
       IN Unless(w3, LAMBDA v : ClearPersistedSession(v, t))

\* abandon leaving isCompleted as it is.
AbandonStaysOpen(w, t, depth) ==
  IF w.isCompleted[t] THEN w
  ELSE LET w0 == Called(w, t, "abandon")
           timeSpent == w0.now - w0.state[t].startTime
           w2 == SendSessionEvent(w0, t, "abandoned",
                   [NoData EXCEPT !.timeSpent = Some(timeSpent)], w0.callSeq, depth)
       IN Unless(w2, LAMBDA v : ClearProgressTimer(v, t))

Abandon(w, t, depth) ==
  IF w.isCompleted[t] THEN w
  ELSE LET w0 == Called(w, t, "abandon")
           w1 == [w0 EXCEPT !.isCompleted[t] = TRUE]
           timeSpent == w1.now - w1.state[t].startTime
           w2 == SendSessionEvent(w1, t, "abandoned",
                   [NoData EXCEPT !.timeSpent = Some(timeSpent)], w0.callSeq, depth)
       IN Unless(w2, LAMBDA v : ClearProgressTimer(v, t))

\* addEventListener handing the new listener a 'started' event of the session.
AddEventListenerReplaying(w, t, callback) ==
  LET w0 == Called(w, t, "addEventListener")
      w1 == [w0 EXCEPT !.eventSenders[t] = Append(@, callback)]
  IN [w1 EXCEPT !.received[callback] =
        Append(@, Delivery(t, SessionEvent(w1, t, "started", NoData), w0.callSeq))]

AddEventListener(w, t, callback) ==
  LET w0 == Called(w, t, "addEventListener")
  IN [w0 EXCEPT !.eventSenders[t] = Append(@, callback)]

\* this.eventSenders = this.eventSenders.filter(cb => cb !== callback)
RemoveEventListener(w, t, callback) ==
  LET w0 == Called(w, t, "removeEventListener")
      keep(cb) == cb # callback
  IN [w0 EXCEPT !.eventSenders[t] = SelectSeq(@, keep)]

\* ----------------------------------------------------------- the callbacks
\* What cbReenter does with the tracker when it is called: one of the public
\* methods, chosen by the step (w.reaction).
Reactions ==
  {[op |-> o] : o \in {"none", "trackInteraction", "startQuestion", "answerQuestion",
                       "skipQuestion", "complete", "abandon",
                       "addEventListener", "removeEventListener"}}

React(w, t, depth) ==
  CASE w.reaction.op = "trackInteraction" -> TrackInteraction(w, t, depth)
    [] w.reaction.op = "startQuestion" -> StartQuestion(w, t, "q1", depth)
    [] w.reaction.op = "answerQuestion" -> AnswerQuestion(w, t, "q1", TRUE, Undefined, depth)
    [] w.reaction.op = "skipQuestion" -> SkipQuestion(w, t, "q1", depth)
    [] w.reaction.op = "complete" -> Complete(w, t, Undefined, Undefined, depth)
    [] w.reaction.op = "abandon" -> Abandon(w, t, depth)
    [] w.reaction.op = "addEventListener" -> AddEventListener(w, t, "cbLog")
    [] w.reaction.op = "removeEventListener" -> RemoveEventListener(w, t, "cbLog")
    [] OTHER -> w

\* sender(event): the callback notes the event, then acts.
Callback(w, t, callback, event, call, depth) ==
  LET w1 == [w EXCEPT !.received[callback] = Append(@, Delivery(t, event, call))]
  IN CASE callback = "cbThrow" -> [w1 EXCEPT !.exc = TRUE]
       [] callback = "cbReenter" -> IF depth < MaxDepth THEN React(w1, t, depth + 1) ELSE w1
       [] OTHER -> w1

RECURSIVE InvokeSenders(_, _, _, _, _, _, _)
\* forEach without the try around sender(event): the first throw ends it.
InvokeSendersUncaught(w, t, senders, i, event, call, depth) ==
  IF i > Len(senders) THEN w
  ELSE LET w1 == Callback(w, t, senders[i], event, call, depth)
       IN IF w1.exc THEN w1
          ELSE InvokeSenders(w1, t, senders, i + 1, event, call, depth)

\* senders.forEach(sender => { try { sender(event) } catch { console.warn } })
\* over the array this.eventSenders was when forEach was called.
InvokeSenders(w, t, senders, i, event, call, depth) ==
  IF i > Len(senders) THEN w
  ELSE LET w1 == Callback(w, t, senders[i], event, call, depth)
           w2 == [w1 EXCEPT !.exc = FALSE]
       IN InvokeSenders(w2, t, senders, i + 1, event, call, depth)

\* sendEvent with the listeners inside the try of postMessage: a throw of
\* postMessage skips them.
SendEventOneTry(w, t, event, call, depth) ==
  LET w1 == PostMessage(w, t, event, call)
  IN IF w1.exc THEN [w1 EXCEPT !.exc = FALSE]
     ELSE InvokeSenders(w1, t, w1.eventSenders[t], 1, event, call, depth)

SendEvent(w, t, event, call, depth) ==
  LET w1 == PostMessage(w, t, event, call)
      w2 == [w1 EXCEPT !.exc = FALSE]
  IN InvokeSenders(w2, t, w2.eventSenders[t], 1, event, call, depth)

\* The constructor announcing new sessions only, not restored ones.
ConstructQuietlyRestoring(w, t, c) ==
  LET w0 == Called([w EXCEPT !.constructed[t] = TRUE, !.config[t] = ResolveConfig(c),
                              !.isCompleted[t] = FALSE, !.eventSenders[t] = << >>,
                              !.progressTimer[t] = Undefined],
                   t, "constructor")
      w1 == RestoreOrCreateSession(w0, t)
      w2 == Unless(w1, LAMBDA v : IF v.sessionSeq > w0.sessionSeq
                                  THEN SendSessionEvent(v, t, "started", NoData, w0.callSeq, 0)
                                  ELSE v)
  IN Unless(w2, LAMBDA v : IF v.config[t].progressUpdateInterval > 0
                            THEN StartProgressUpdates(v, t) ELSE v)

\* new BlockTracker(c)
Construct(w, t, c) ==
  LET w0 == Called([w EXCEPT !.constructed[t] = TRUE, !.config[t] = ResolveConfig(c),
                              !.isCompleted[t] = FALSE, !.eventSenders[t] = << >>,
                              !.progressTimer[t] = Undefined],
                   t, "constructor")
      w1 == RestoreOrCreateSession(w0, t)
      w2 == Unless(w1, LAMBDA v : SendSessionEvent(v, t, "started", NoData, w0.callSeq, 0))
  IN Unless(w2, LAMBDA v : IF v.config[t].progressUpdateInterval > 0
                            THEN StartProgressUpdates(v, t) ELSE v)

\* The interval callback of startProgressUpdates.
ProgressUpdate(w, t) == IF ~w.isCompleted[t] THEN PersistSession(w, t) ELSE w

\* The handler abandoning without marking the session ended.
UnloadHandlerRepeating(w, t) == IF ~w.isCompleted[t] THEN AbandonStaysOpen(w, t, 0) ELSE w

\* The beforeunload / pagehide handler of setupUnloadHandler.
UnloadHandler(w, t) == IF ~w.isCompleted[t] THEN Abandon(w, t, 0) ELSE w

\* ------------------------------------------------------- RegisteredContent
\* A RegisteredContentDto, and the instance built from it, which copies the
\* five fields.  The page builds two contents per store id, which differ in
\* their paths and in their data.
Dtos ==
  {[id |-> i, jsonFilePath |-> v[1], storeFilePath |-> v[2], componentPath |-> v[3],
    data |-> v[4]] :
     i \in StoreIds,
     v \in {<<"a.json", "a.store", "a.tsx", "d1">>, <<"b.json", "b.store", "b.tsx", "d2">>}}

\* window.parent.postMessage(message, '*'), outside any try.
PostToParent(w, message) ==
  IF PostMessageThrows(w) THEN [w EXCEPT !.exc = TRUE]
  ELSE [w EXCEPT !.posted = Append(@, Delivery("content", message, w.callSeq))]

\* The message of the constructor.
InitMessage(dto) ==
  [type |-> "editor:init", storeId |-> dto.id, jsonFilePath |-> dto.jsonFilePath,
   storeFilePath |-> dto.storeFilePath, componentPath |-> dto.componentPath,
   data |-> dto.data]

\* The message of emitInlineEditEvent.
InlineUpdateMessage(store, path, value) ==
  [type |-> "editor:inline-update", storeId |-> store.id,
   jsonFilePath |-> store.jsonFilePath, componentPath |-> store.componentPath,
   storeFilePath |-> store.storeFilePath, path |-> path, value |-> value]

\* The constructor without the test of the registry.
RegisteredContentAgain(w, dto) ==
  LET w0 == [w EXCEPT !.callSeq = @ + 1, !.contents = @ \cup {dto}]
      w1 == [w0 EXCEPT !.registeredContents =
               [i \in DOMAIN @ \cup {dto.id} |-> IF i = dto.id THEN dto ELSE @[i]]]
  IN PostToParent(w1, InitMessage(dto))

\* new RegisteredContent(dto)
RegisteredContent(w, dto) ==
  LET w0 == [w EXCEPT !.callSeq = @ + 1, !.contents = @ \cup {dto}]
  IN IF dto.id \in DOMAIN w0.registeredContents THEN w0
     ELSE LET w1 == [w0 EXCEPT !.registeredContents =
                       [i \in DOMAIN @ \cup {dto.id} |-> IF i = dto.id THEN dto ELSE @[i]]]
          IN PostToParent(w1, InitMessage(dto))

\* store.emitInlineEditEvent(path, value)
EmitInlineEditEvent(w, store, path, value) ==
  PostToParent([w EXCEPT !.callSeq = @ + 1], InlineUpdateMessage(store, path, value))

\* inlineUpdateRegisteredContent(storeId, path, value)
InlineUpdateRegisteredContent(w, storeId, path, value) ==
  IF storeId \notin DOMAIN w.registeredContents THEN w
  ELSE EmitInlineEditEvent(w, w.registeredContents[storeId], path, value)

\* ------------------------------------------------------------------ steps
\* The configurations the page constructs trackers with.
Configs ==
  {[NoConfig EXCEPT !.blockId = Some("B1"), !.persistSession = p, !.trackQuestions = q] :
     p \in {Undefined, Some(TRUE)}, q \in {Undefined, Some(FALSE)}}

\* The answers the page passes: isCorrect and options.hintsUsed.
Answers ==
  {[isCorrect |-> TRUE, hintsUsed |-> Undefined], [isCorrect |-> FALSE, hintsUsed |-> Some(2)]}

\* The score and maxScore the page passes to complete.
Scores ==
  {[score |-> Undefined, maxScore |-> Undefined], [score |-> Some(1), maxScore |-> Some(2)]}

NoListeners == \A t \in Trackers : eventSenders[t] = << >>
OneTracker == Cardinality({t \in Trackers : constructed[t]}) = 1

\* What cbReenter may do during a call on tracker t.
ReactionsOf(t) ==
  IF "cbReenter" \in Range(eventSenders[t]) THEN Reactions ELSE {[op |-> "none"]}

\* What the browser may do during the next call.
FaultsNow == IF faults < MaxFaults THEN {"none", "storage", "postMessage"} ELSE {"none"}

\* The world of a step in which the browser does f and cbReenter reacts by r.
Step(f, r) == [World EXCEPT !.fault = f, !.reaction = r]

CanCall(t) == constructed[t] /\ callSeq < MaxCalls

\* The configurations tracker t may be constructed with.  t2 is constructed
\* after t1, on a page without listeners, and on the storage key t1 persists
\* to: two trackers that share no key have no state in common.
ConfigsOf(t) ==
  IF t = "t1" THEN Configs
  ELSE IF constructed["t1"] /\ NoListeners /\ config["t1"].persistSession
       THEN {c \in Configs : c.persistSession = Some(TRUE)}
       ELSE {}

\* localStorage is only reached with persistSession, so that it throws matters
\* only then.
FaultsOf(persists) == IF persists THEN FaultsNow ELSE FaultsNow \ {"storage"}

ConstructTracker(t) ==
  /\ ~constructed[t]
  /\ callSeq < MaxCalls
  /\ \E c \in ConfigsOf(t) :
       \E f \in FaultsOf(c.persistSession = Some(TRUE)) :
         Commit(Construct(Step(f, [op |-> "none"]), t, c))

CallTrackInteraction(t) ==
  /\ CanCall(t)
  /\ \E f \in FaultsOf(config[t].persistSession), r \in ReactionsOf(t) : Commit(TrackInteraction(Step(f, r), t, 0))

CallStartQuestion(t) ==
  /\ CanCall(t)
  /\ \E f \in FaultsOf(config[t].persistSession), r \in ReactionsOf(t), q \in QuestionIds :
       Commit(StartQuestion(Step(f, r), t, q, 0))

CallAnswerQuestion(t) ==
  /\ CanCall(t)
  /\ \E f \in FaultsOf(config[t].persistSession), r \in ReactionsOf(t), q \in QuestionIds, a \in Answers :
       Commit(AnswerQuestion(Step(f, r), t, q, a.isCorrect, a.hintsUsed, 0))

CallSkipQuestion(t) ==
  /\ CanCall(t)
  /\ \E f \in FaultsOf(config[t].persistSession), r \in ReactionsOf(t), q \in QuestionIds :
       Commit(SkipQuestion(Step(f, r), t, q, 0))

CallComplete(t) ==
  /\ CanCall(t)
  /\ \E f \in FaultsOf(config[t].persistSession), r \in ReactionsOf(t), s \in Scores :
       Commit(Complete(Step(f, r), t, s.score, s.maxScore, 0))

CallAbandon(t) ==
  /\ CanCall(t)
  /\ \E f \in FaultsOf(config[t].persistSession), r \in ReactionsOf(t) : Commit(Abandon(Step(f, r), t, 0))

\* Listeners are registered on a page with one tracker.
CallAddEventListener(t) ==
  /\ CanCall(t)
  /\ OneTracker
  /\ \E cb \in Callbacks : Commit(AddEventListener(World, t, cb))

CallRemoveEventListener(t) ==
  /\ CanCall(t)
  /\ \E cb \in Range(eventSenders[t]) : Commit(RemoveEventListener(World, t, cb))

\* The interval of tracker t fires.
TimerFires(t) ==
  /\ constructed[t]
  /\ IsDefined(progressTimer[t])
  /\ Get(progressTimer[t]) \in intervals
  /\ Commit(ProgressUpdate(World, t))

\* beforeunload or pagehide reaches the handler of tracker t.
PageUnloads(t) ==
  /\ CanCall(t)
  /\ \E f \in FaultsOf(config[t].persistSession), r \in ReactionsOf(t) : Commit(UnloadHandler(Step(f, r), t))

ConstructContent ==
  /\ callSeq < MaxCalls
  /\ \E dto \in Dtos, f \in FaultsOf(FALSE) : Commit(RegisteredContent(Step(f, [op |-> "none"]), dto))

CallEmitInlineEditEvent ==
  /\ callSeq < MaxCalls
  /\ \E store \in contents, f \in FaultsOf(FALSE) :
       Commit(EmitInlineEditEvent(Step(f, [op |-> "none"]), store, "p", "v"))

CallInlineUpdateRegisteredContent ==
  /\ callSeq < MaxCalls
  /\ \E i \in StoreIds, f \in FaultsOf(FALSE) :
       Commit(InlineUpdateRegisteredContent(Step(f, [op |-> "none"]), i, "p", "v"))

\* ------------------------------------------------------------ EditableText
\* The instances of the component on the page, the ids they are given, and
\* what the user types.
Elements == {"e1", "e2"}
ElementIds == {"a", "b"}
Typed == {"Yo", ""}
DefaultFilePath == "src/block.tsx"

\* children: a string, or a React node that is not a string.
Text(s) == [kind |-> "string", text |-> s]
Node == [kind |-> "node"]
Children == {Text("Hi"), Text("Yo"), Node}

\* typeof children === 'string' ? children : ''
TextOf(children) == IF children.kind = "string" THEN children.text ELSE ""

\* The props after destructuring: filePath = 'src/block.tsx' when undefined.
Destructure(props) == [props EXCEPT !.filePath = Some(Coalesce(@, DefaultFilePath))]

NoProps == [id |-> "", children |-> Text(""), filePath |-> Undefined,
            propertyPath |-> Undefined]

\* An instance that is not mounted; the useState values are those of a mount.
Unmounted ==
  [mounted |-> FALSE, props |-> NoProps, isEditMode |-> FALSE, isHovered |-> FALSE,
   isInlineEditing |-> FALSE, editValue |-> "", effect |-> Undefined]

\* A render, user event or host message: its kind, the instance it is for
\* (none for a host message) and the key, value, props or message data.
Event(kind, e, detail) == [kind |-> kind, on |-> e, detail |-> detail]
NoEvent == Event("none", "", Undefined)

NoElements ==
  /\ elements = [e \in Elements |-> Unmounted]
  /\ listeners = << >>
  /\ outbox = << >>
  /\ eventSeq = 0
  /\ lastEvent = NoEvent

\* elementRef.current?.getBoundingClientRect(): the tag is not rendered while
\* the input is.
Rect(el) == IF el.isInlineEditing THEN Undefined ELSE Some("rect")

RegisterMessage(el, p) ==
  [type |-> "EDITABLE_REGISTER", id |-> p.id, filePath |-> Get(Destructure(p).filePath),
   propertyPath |-> p.propertyPath, text |-> TextOf(p.children), element |-> Rect(el)]

UnregisterMessage(p) == [type |-> "EDITABLE_UNREGISTER", id |-> p.id]

ResponseMessage(el, p) ==
  [type |-> "EDITABLE_EDIT_RESPONSE", id |-> p.id,
   filePath |-> Get(Destructure(p).filePath), propertyPath |-> p.propertyPath,
   currentText |-> TextOf(p.children), element |-> Rect(el)]

SaveMessage(el) ==
  [type |-> "EDITABLE_SAVE_INLINE", id |-> el.props.id,
   filePath |-> Get(Destructure(el.props).filePath),
   propertyPath |-> el.props.propertyPath, oldText |-> TextOf(el.props.children),
   newText |-> el.editValue]

\* The page an element lives in: the instances, the listeners and the outbox.
Page == [elements |-> elements, listeners |-> listeners, outbox |-> outbox]

Sent(e, to, message) == [from |-> e, to |-> to, event |-> eventSeq + 1, message |-> message]

\* if (window.parent !== window) window.parent.postMessage(message, '*');
\* window.postMessage(message, '*')
PostBoth(pg, e, message) ==
  [pg EXCEPT !.outbox = @ \o (IF framed THEN <<Sent(e, "parent", message)>> ELSE << >>)
                          \o <<Sent(e, "window", message)>>]

\* The body of the effect, run with the props p of the render it belongs to.
RunEffect(pg, e, p) ==
  LET pg1 == PostBoth(pg, e, RegisterMessage(pg.elements[e], p))
  IN [pg1 EXCEPT !.elements[e].effect = Some(p), !.listeners = Append(@, e)]

\* The cleanup announcing the id of the current render, not that of its effect.
CleanupCurrentId(pg, e) ==
  LET pg1 == [pg EXCEPT !.listeners = SelectSeq(@, LAMBDA x : x # e)]
      pg2 == PostBoth(pg1, e, UnregisterMessage(pg.elements[e].props))
  IN [pg2 EXCEPT !.elements[e].effect = Undefined]

\* The function the effect returned.
Cleanup(pg, e) ==
  LET pg1 == [pg EXCEPT !.listeners = SelectSeq(@, LAMBDA x : x # e)]
      pg2 == PostBoth(pg1, e, UnregisterMessage(Get(pg.elements[e].effect)))
  IN [pg2 EXCEPT !.elements[e].effect = Undefined]

\* [id, filePath, propertyPath, children] compared with those of the effect.
DepsChanged(p, q) ==
  \/ p.id # q.id
  \/ Destructure(p).filePath # Destructure(q).filePath
  \/ p.propertyPath # q.propertyPath
  \/ p.children # q.children

\* The first render of instance e with props p, and its effect.
Mount(pg, e, p) ==
  RunEffect([pg EXCEPT !.elements[e] = [Unmounted EXCEPT !.mounted = TRUE, !.props = p]],
            e, p)

\* A render of instance e with props p; the effect runs again when a
\* dependency changed, after the cleanup of the one before.
Rerender(pg, e, p) ==
  LET pg1 == [pg EXCEPT !.elements[e].props = p]
  IN IF DepsChanged(Get(pg.elements[e].effect), p)
     THEN RunEffect(Cleanup(pg1, e), e, p)
     ELSE pg1

Unmount(pg, e) == [Cleanup(pg, e) EXCEPT !.elements[e] = Unmounted]

\* handleMessage of instance e, with the id and children of its effect.
HandleMessage(pg, e, data) ==
  LET p == Get(pg.elements[e].effect)
      pg1 == IF data.type = "EDITABLE_MODE_CHANGE"
             THEN [pg EXCEPT !.elements[e].isEditMode = data.enabled] ELSE pg
      pg2 == IF data.type = "EDITABLE_START_INLINE_EDIT" /\ data.id = p.id
             THEN [pg1 EXCEPT !.elements[e].isInlineEditing = TRUE,
                              !.elements[e].editValue = TextOf(p.children)]
             ELSE pg1
  IN IF data.type = "EDITABLE_EDIT_REQUEST" /\ data.id = p.id
     THEN PostBoth(pg2, e, ResponseMessage(pg.elements[e], p))
     ELSE pg2

\* The message event of the window: the listeners in the order they were added.
RECURSIVE Dispatch(_, _, _, _)
Dispatch(pg, called, i, data) ==
  IF i > Len(called) THEN pg
  ELSE Dispatch(HandleMessage(pg, called[i], data), called, i + 1, data)

\* handleClick whatever the edit mode.
HandleClickAlways(pg, e) ==
  [pg EXCEPT !.elements[e].isInlineEditing = TRUE,
             !.elements[e].editValue = TextOf(pg.elements[e].props.children)]

HandleClick(pg, e) ==
  LET el == pg.elements[e]
  IN IF el.isEditMode /\ ~el.isInlineEditing
     THEN [pg EXCEPT !.elements[e].isInlineEditing = TRUE,
                     !.elements[e].editValue = TextOf(el.props.children)]
     ELSE pg

\* handleSave keeping the input until the host answers.
HandleSaveAwaiting(pg, e) == PostBoth(pg, e, SaveMessage(pg.elements[e]))

HandleSave(pg, e) ==
  LET pg1 == PostBoth(pg, e, SaveMessage(pg.elements[e]))
  IN [pg1 EXCEPT !.elements[e].isInlineEditing = FALSE]

\* handleCancel saving what was typed, as the loss of focus does.
HandleCancelSaving(pg, e) ==
  [HandleSave(pg, e) EXCEPT !.elements[e].editValue = ""]

HandleCancel(pg, e) ==
  [pg EXCEPT !.elements[e].isInlineEditing = FALSE, !.elements[e].editValue = ""]

HandleKeyDown(pg, e, key) ==
  IF key = "Enter" THEN HandleSave(pg, e)
  ELSE IF key = "Escape" THEN HandleCancel(pg, e)
  ELSE pg

HandleBlur(pg, e) == HandleSave(pg, e)

\* onChange={(e) => setEditValue(e.target.value)}
OnChange(pg, e, value) == [pg EXCEPT !.elements[e].editValue = value]

\* onMouseEnter={() => isEditMode && setIsHovered(true)}, and onMouseLeave
OnMouse(pg, e, entered) ==
  IF pg.elements[e].isEditMode THEN [pg EXCEPT !.elements[e].isHovered = entered] ELSE pg

\* Date.now() advances.  The time that passes is read as timeToAnswer and as
\* timeSpent; it is let pass while a question is open.
Tick ==
  /\ now < MaxTime
  /\ \E t \in Trackers : IsDefined(state[t].currentQuestionId)
  /\ now' = now + 1
  /\ UNCHANGED <<trackerVars, posted, registeredContents, contents, faults,
                 raised, callSeq, editableVars>>

Init ==
  /\ constructed = [t \in Trackers |-> FALSE]
  /\ config = [t \in Trackers |-> ResolveConfig(NoConfig)]
  /\ state = [t \in Trackers |-> NoSession]
  /\ isCompleted = [t \in Trackers |-> FALSE]
  /\ eventSenders = [t \in Trackers |-> << >>]
  /\ progressTimer = [t \in Trackers |-> Undefined]
  /\ intervals = {}
  /\ timerSeq = 0
  /\ localStorage = << >>
  /\ posted = << >>
  /\ received = [cb \in Callbacks |-> << >>]
  /\ registeredContents = << >>
  /\ contents = {}
  /\ now = 1
  /\ sessionSeq = 0
  /\ faults = 0
  /\ raised = FALSE
  /\ callSeq = 0
  /\ callLog = [t \in Trackers |-> << >>]
  /\ restored = [t \in Trackers |-> NoSession]
  /\ NoElements
  /\ framed = TRUE

\* The session tracker.
Next ==
  \/ \E t \in Trackers : ConstructTracker(t)
  \/ \E t \in Trackers : CallTrackInteraction(t)
  \/ \E t \in Trackers : CallStartQuestion(t)
  \/ \E t \in Trackers : CallAnswerQuestion(t)
  \/ \E t \in Trackers : CallSkipQuestion(t)
  \/ \E t \in Trackers : CallComplete(t)
  \/ \E t \in Trackers : CallAbandon(t)
  \/ \E t \in Trackers : CallAddEventListener(t)
  \/ \E t \in Trackers : CallRemoveEventListener(t)
  \/ \E t \in Trackers : TimerFires(t)
  \/ \E t \in Trackers : PageUnloads(t)
  \/ Tick

Spec == Init /\ [][Next]_vars

\* ------------------------------------------------- the shared storage key
\* Two blocks whose trackers are configured with one storage key, on a page
\* whose localStorage may hold, under that key, a text that is no JSON.
SharedKey == "blockTracker_B1"

StoringConfigs ==
  {[NoConfig EXCEPT !.blockId = Some(b), !.persistSession = p,
                    !.sessionStorageKey = Some(SharedKey)] :
     b \in {"B1", "B2"}, p \in {Undefined, Some(TRUE)}}

StoredAtLoad == {<< >>, [k \in {SharedKey} |-> Malformed]}

ConstructStoring(t) ==
  /\ ~constructed[t]
  /\ callSeq < MaxCalls
  /\ \E c \in StoringConfigs :
       \E f \in FaultsOf(c.persistSession = Some(TRUE)) :
         Commit(Construct(Step(f, [op |-> "none"]), t, c))

InitStorage ==
  /\ constructed = [t \in Trackers |-> FALSE]
  /\ config = [t \in Trackers |-> ResolveConfig(NoConfig)]
  /\ state = [t \in Trackers |-> NoSession]
  /\ isCompleted = [t \in Trackers |-> FALSE]
  /\ eventSenders = [t \in Trackers |-> << >>]
  /\ progressTimer = [t \in Trackers |-> Undefined]
  /\ intervals = {}
  /\ timerSeq = 0
  /\ localStorage \in StoredAtLoad
  /\ posted = << >>
  /\ received = [cb \in Callbacks |-> << >>]
  /\ registeredContents = << >>
  /\ contents = {}
  /\ now = 1
  /\ sessionSeq = 0
  /\ faults = 0
  /\ raised = FALSE
  /\ callSeq = 0
  /\ callLog = [t \in Trackers |-> << >>]
  /\ restored = [t \in Trackers |-> NoSession]
  /\ NoElements
  /\ framed = TRUE

NextStorage ==
  \/ \E t \in Trackers : ConstructStoring(t)
  \/ \E t \in Trackers : CallTrackInteraction(t)
  \/ \E t \in Trackers : CallStartQuestion(t)
  \/ \E t \in Trackers : CallAnswerQuestion(t)
  \/ \E t \in Trackers : CallComplete(t)
  \/ \E t \in Trackers : CallAbandon(t)
  \/ \E t \in Trackers : TimerFires(t)

SpecStorage == InitStorage /\ [][NextStorage]_vars

\* ------------------------------------------------------ the progress timer
\* Persisting trackers configured with the default interval, with 0 and with
\* a negative interval, on a page with listeners.
TimerConfigs ==
  {[NoConfig EXCEPT !.blockId = Some("B1"), !.persistSession = Some(TRUE),
                    !.progressUpdateInterval = i] :
     i \in {Undefined, Some(0), Some(-1)}}

ConstructTimed(t) ==
  /\ ~constructed[t]
  /\ callSeq < MaxCalls
  /\ \E c \in TimerConfigs, f \in FaultsOf(TRUE) :
       Commit(Construct(Step(f, [op |-> "none"]), t, c))

NextTimer ==
  \/ \E t \in Trackers : ConstructTimed(t)
  \/ \E t \in Trackers : CallTrackInteraction(t)
  \/ \E t \in Trackers : CallComplete(t)
  \/ \E t \in Trackers : CallAbandon(t)
  \/ \E t \in Trackers : CallAddEventListener(t)
  \/ \E t \in Trackers : TimerFires(t)
  \/ \E t \in Trackers : PageUnloads(t)

SpecTimer == Init /\ [][NextTimer]_vars

\* ------------------------------------------------- what completion emits
\* Trackers configured with and without the details of the 'completed' event
\* and with and without the legacy completion event, on a page with listeners.
EmissionConfigs ==
  {[NoConfig EXCEPT !.blockId = Some("B1"), !.sendSummaryEvent = s, !.sendLegacyEvent = l] :
     s \in {Undefined, Some(FALSE)}, l \in {Undefined, Some(FALSE)}}

ConstructEmitting(t) ==
  /\ ~constructed[t]
  /\ callSeq < MaxCalls
  /\ \E c \in EmissionConfigs, f \in FaultsOf(FALSE) :
       Commit(Construct(Step(f, [op |-> "none"]), t, c))

NextEmission ==
  \/ \E t \in Trackers : ConstructEmitting(t)
  \/ \E t \in Trackers : CallTrackInteraction(t)
  \/ \E t \in Trackers : CallAnswerQuestion(t)
  \/ \E t \in Trackers : CallComplete(t)
  \/ \E t \in Trackers : CallAbandon(t)
  \/ \E t \in Trackers : CallAddEventListener(t)
  \/ \E t \in Trackers : PageUnloads(t)

SpecEmission == Init /\ [][NextEmission]_vars

\* ----------------------------------------------------- the tracking toggles
\* Persisting trackers with trackInteractions, trackQuestions and
\* sendDetailedEvents each on or off, on a page with listeners.  As in
\* ConfigsOf, the second tracker is constructed on a page without listeners.
ToggleConfigs ==
  {[NoConfig EXCEPT !.blockId = Some("B1"), !.persistSession = Some(TRUE),
                    !.trackInteractions = i, !.trackQuestions = q,
                    !.sendDetailedEvents = d] :
     i \in {Undefined, Some(FALSE)}, q \in {Undefined, Some(FALSE)},
     d \in {Undefined, Some(FALSE)}}

ConstructToggled(t) ==
  /\ ~constructed[t]
  /\ callSeq < MaxCalls
  /\ OneTracker => NoListeners
  /\ \E c \in ToggleConfigs, f \in FaultsOf(TRUE) :
       Commit(Construct(Step(f, [op |-> "none"]), t, c))

NextToggles ==
  \/ \E t \in Trackers : ConstructToggled(t)
  \/ \E t \in Trackers : CallTrackInteraction(t)
  \/ \E t \in Trackers : CallStartQuestion(t)
  \/ \E t \in Trackers : CallAnswerQuestion(t)
  \/ \E t \in Trackers : CallSkipQuestion(t)
  \/ \E t \in Trackers : CallComplete(t)
  \/ \E t \in Trackers : CallAbandon(t)
  \/ \E t \in Trackers : CallAddEventListener(t)

SpecToggles == Init /\ [][NextToggles]_vars

\* The registered-content registry.
NextContent ==
  \/ ConstructContent
  \/ CallEmitInlineEditEvent
  \/ CallInlineUpdateRegisteredContent

SpecContent == Init /\ [][NextContent]_vars

\* ------------------------------------------------- the editable elements
\* What the host posts to the window of the elements.
HostMessages ==
  {[type |-> "EDITABLE_MODE_CHANGE", enabled |-> b] : b \in BOOLEAN}
    \cup {[type |-> ty, id |-> i] :
            ty \in {"EDITABLE_START_INLINE_EDIT", "EDITABLE_EDIT_REQUEST"}, i \in ElementIds}

\* The props an instance is first rendered with.
MountProps ==
  {[NoProps EXCEPT !.id = i, !.children = c] : i \in ElementIds, c \in {Text("Hi"), Node}}

\* The props of a later render: one prop differs from those of the render before.
NextProps(p) ==
  ({[p EXCEPT !.id = i] : i \in ElementIds}
     \cup {[p EXCEPT !.children = c] : c \in Children}
     \cup {[p EXCEPT !.filePath = f] : f \in {Undefined, Some(DefaultFilePath), Some("f.tsx")}}
     \cup {[p EXCEPT !.propertyPath = q] : q \in {Undefined, Some("title")}}) \ {p}

\* The step of event ev to page pg.
Show(pg, ev) ==
  /\ eventSeq < MaxEvents
  /\ lastEvent' = ev
  /\ elements' = pg.elements
  /\ listeners' = pg.listeners
  /\ outbox' = pg.outbox
  /\ eventSeq' = eventSeq + 1
  /\ UNCHANGED <<framed, coreVars>>

\* The input is rendered while the instance is inline editing, the tag otherwise.
InputRendered(e) == elements[e].mounted /\ elements[e].isInlineEditing
TagRendered(e) == elements[e].mounted /\ ~elements[e].isInlineEditing

\* e2 is mounted on a page that shows e1.
Mounts(e) ==
  /\ ~elements[e].mounted
  /\ e = "e2" => elements["e1"].mounted
  /\ \E p \in MountProps : Show(Mount(Page, e, p), Event("mount", e, p))

Rerenders(e) ==
  /\ elements[e].mounted
  /\ \E p \in NextProps(elements[e].props) : Show(Rerender(Page, e, p), Event("render", e, p))

Unmounts(e) == elements[e].mounted /\ Show(Unmount(Page, e), Event("unmount", e, Undefined))

HostPosts ==
  /\ eventSeq < MaxEvents
  /\ \E data \in HostMessages : Show(Dispatch(Page, listeners, 1, data), Event("message", "", data))

Clicks(e) == TagRendered(e) /\ Show(HandleClick(Page, e), Event("click", e, Undefined))

MouseMoves(e) == TagRendered(e) /\ \E entered \in BOOLEAN : Show(OnMouse(Page, e, entered), Event("mouse", e, entered))

Types(e) == InputRendered(e) /\ \E value \in Typed : Show(OnChange(Page, e, value), Event("change", e, value))

PressesKey(e) ==
  /\ InputRendered(e)
  /\ \E key \in {"Enter", "Escape", "a"} :
       Show(HandleKeyDown(Page, e, key), Event("keydown", e, key))

Blurs(e) == InputRendered(e) /\ Show(HandleBlur(Page, e), Event("blur", e, Undefined))

InitEditable ==
  /\ constructed = [t \in Trackers |-> FALSE]
  /\ config = [t \in Trackers |-> ResolveConfig(NoConfig)]
  /\ state = [t \in Trackers |-> NoSession]
  /\ isCompleted = [t \in Trackers |-> FALSE]
  /\ eventSenders = [t \in Trackers |-> << >>]
  /\ progressTimer = [t \in Trackers |-> Undefined]
  /\ intervals = {}
  /\ timerSeq = 0
  /\ localStorage = << >>
  /\ posted = << >>
  /\ received = [cb \in Callbacks |-> << >>]
  /\ registeredContents = << >>
  /\ contents = {}
  /\ now = 1
  /\ sessionSeq = 0
  /\ faults = 0
  /\ raised = FALSE
  /\ callSeq = 0
  /\ callLog = [t \in Trackers |-> << >>]
  /\ restored = [t \in Trackers |-> NoSession]
  /\ NoElements
  /\ framed \in BOOLEAN

NextEditable ==
  \/ \E e \in Elements : Mounts(e)
  \/ \E e \in Elements : Rerenders(e)
  \/ \E e \in Elements : Unmounts(e)
  \/ HostPosts
  \/ \E e \in Elements : Clicks(e)
  \/ \E e \in Elements : MouseMoves(e)
  \/ \E e \in Elements : Types(e)
  \/ \E e \in Elements : PressesKey(e)
  \/ \E e \in Elements : Blurs(e)

SpecEditable == InitEditable /\ [][NextEditable]_vars

\* =============================================================== properties
\* The trackers that have been constructed.
Live == {t \in Trackers : constructed[t]}

\* The calls of op that tracker t has carried out, in call order.
CallsOf(t, op) == SelectSeq(callLog[t], LAMBDA c : c.op = op)

\* The sinks: the message channel and what each callback has been handed.
Sinks == {posted} \cup {received[cb] : cb \in Callbacks}

\* How many events satisfying P the sink log holds from tracker t.
SentBy(log, t, P(_)) == Len(SelectSeq(log, LAMBDA d : d.from = t /\ P(d)))

\* The calls of tracker t that emitted an event satisfying P to some sink.  (A
\* callback registered twice is handed every event twice.)
Emitters(t, P(_)) ==
  UNION {{log[i].call : i \in {j \in 1..Len(log) : log[j].from = t /\ P(log[j])}} :
           log \in Sinks}

IsSessionEvent(d, eventTypes) ==
  d.event.type = "BLOCK_SESSION" /\ d.event.eventType \in eventTypes
IsCompletedEvent(d) == IsSessionEvent(d, {"completed"})
IsTerminalEvent(d) == IsSessionEvent(d, {"completed", "abandoned"})
IsLegacyEvent(d) == d.event.type = "BLOCK_COMPLETION"

AllFaults == {"none", "storage", "postMessage"}

\* C1 (as amended): on every tracker, totalInteractions is the count the
\* tracker started from (0 for a new session, the restored count for a session
\* adopted from storage) plus the number of trackInteraction calls made on it,
\* and interactions is the list it started from followed by exactly one event
\* per call, in call order.
InteractionsFollowCalls ==
  \A t \in Live :
    LET calls == CallsOf(t, "trackInteraction")
        before == Len(restored[t].interactions)
        s == state[t]
    IN /\ s.totalInteractions = restored[t].totalInteractions + Len(calls)
       /\ Len(s.interactions) = before + Len(calls)
       /\ SubSeq(s.interactions, 1, before) = restored[t].interactions
       /\ \A i \in 1..Len(calls) : s.interactions[before + i].elementId = calls[i].call

\* C1 as stated: totalInteractions is the number of trackInteraction calls made
\* on the tracker, and interactions holds exactly one event per call.
InteractionsEqualCalls ==
  \A t \in Live :
    LET calls == CallsOf(t, "trackInteraction")
        s == state[t]
    IN /\ s.totalInteractions = Len(calls)
       /\ Len(s.interactions) = Len(calls)
       /\ \A i \in 1..Len(calls) : s.interactions[i].elementId = calls[i].call

\* A tracker that adopted a stored session with interactions and has tracked
\* another since.
RestoredTrackerTracks ==
  \E t \in Live :
    /\ ~isCompleted[t]
    /\ Len(restored[t].interactions) > 0
    /\ Len(CallsOf(t, "trackInteraction")) > 0

\* C2: the counters of a session state equal the counts derived from its
\* event lists: totalInteractions the length of interactions, totalQuestions
\* the number of answered question events, correctQuestions the number of
\* answered events with isCorrect true.  It holds of the state of every
\* tracker and of every record in storage, read back.
CountersMatch(s) ==
  /\ s.totalInteractions = Len(s.interactions)
  /\ s.totalQuestions = Len(SelectSeq(s.questions, IsAnswered))
  /\ s.correctQuestions = Len(SelectSeq(s.questions, IsCorrectAnswer))

CountersAreDerivable ==
  /\ \A t \in Live : CountersMatch(state[t])
  /\ \A key \in DOMAIN localStorage : CountersMatch(Parse(localStorage[key]))

\* A tracker that adopted a session with one wrong answer and has recorded a
\* correct one since.
RestoredTrackerAnswers ==
  \E t \in Live :
    /\ restored[t].totalQuestions = 1
    /\ restored[t].correctQuestions = 0
    /\ state[t].totalQuestions = 2
    /\ state[t].correctQuestions = 1

\* C3: complete() is idempotent.  Of one tracker, at most one call emits a
\* 'completed' session event and at most one a BLOCK_COMPLETION event, the
\* channel holds at most one of each, and on a tracker on which complete() has
\* been called, a further complete(), whatever the browser and the listeners
\* do during it, returns the world it was called in: no emission, no change
\* of state, timer or storage.
CompleteIsIdempotent ==
  \A t \in Live :
    /\ Cardinality(Emitters(t, IsCompletedEvent)) <= 1
    /\ Cardinality(Emitters(t, IsLegacyEvent)) <= 1
    /\ SentBy(posted, t, IsCompletedEvent) <= 1
    /\ SentBy(posted, t, IsLegacyEvent) <= 1
    /\ Len(CallsOf(t, "complete")) <= 1
    /\ CallsOf(t, "complete") # << >> =>
         \A f \in AllFaults, r \in ReactionsOf(t), s \in Scores :
           Complete(Step(f, r), t, s.score, s.maxScore, 0) = Step(f, r)

\* A completed tracker whose completion reached the channel and a listener.
CompletedOnce ==
  \E t \in Live :
    /\ CallsOf(t, "complete") # << >>
    /\ SentBy(posted, t, IsCompletedEvent) = 1
    /\ SentBy(posted, t, IsLegacyEvent) = 1
    /\ SentBy(received["cbLog"], t, IsCompletedEvent) = 1

\* C4: a tracker emits at most one terminal session event, 'completed' or
\* 'abandoned': at most one of its calls emits one, the channel holds at most
\* one, and abandon() after complete() and complete() after abandon() return
\* the world they were called in.
OneTerminalEvent ==
  \A t \in Live :
    /\ Cardinality(Emitters(t, IsTerminalEvent)) <= 1
    /\ SentBy(posted, t, IsTerminalEvent) <= 1
    /\ Len(CallsOf(t, "complete")) + Len(CallsOf(t, "abandon")) <= 1
    /\ CallsOf(t, "complete") # << >> =>
         \A f \in AllFaults, r \in ReactionsOf(t) : Abandon(Step(f, r), t, 0) = Step(f, r)
    /\ CallsOf(t, "abandon") # << >> =>
         \A f \in AllFaults, r \in ReactionsOf(t), s \in Scores :
           Complete(Step(f, r), t, s.score, s.maxScore, 0) = Step(f, r)

\* An abandoned tracker whose 'abandoned' event reached the channel.
AbandonedOnce ==
  \E t \in Live :
    /\ CallsOf(t, "abandon") # << >>
    /\ SentBy(posted, t, IsTerminalEvent) = 1
    /\ SentBy(posted, t, IsCompletedEvent) = 0

TrackingOps == {"trackInteraction", "startQuestion", "answerQuestion", "skipQuestion"}

\* C5: on a completed or abandoned tracker, trackInteraction, startQuestion,
\* answerQuestion and skipQuestion return the world they were called in (no
\* event to any sink, no change of state or storage); no tracking call
\* follows a terminal call in the tracker's log; and a listener that makes
\* one of them while it handles the terminal event changes nothing: complete()
\* and abandon() end as they end when the listener does nothing.
TerminalIsAbsorbing ==
  \A t \in Live :
    /\ isCompleted[t] =>
         \A f \in AllFaults, r \in ReactionsOf(t), q \in QuestionIds, a \in Answers :
           LET w == Step(f, r)
           IN /\ TrackInteraction(w, t, 0) = w
              /\ StartQuestion(w, t, q, 0) = w
              /\ AnswerQuestion(w, t, q, a.isCorrect, a.hintsUsed, 0) = w
              /\ SkipQuestion(w, t, q, 0) = w
    /\ \A i, j \in 1..Len(callLog[t]) :
         i < j /\ callLog[t][i].op \in {"complete", "abandon"}
           => callLog[t][j].op \notin TrackingOps
    /\ (~isCompleted[t] /\ "cbReenter" \in Range(eventSenders[t])) =>
         \A f \in AllFaults :
           LET quiet == Step(f, [op |-> "none"])
               completed == Complete(quiet, t, Undefined, Undefined, 0)
               abandoned == Abandon(quiet, t, 0)
           IN \A r \in {x \in Reactions : x.op \in TrackingOps} :
                /\ Complete(Step(f, r), t, Undefined, Undefined, 0)
                     = [completed EXCEPT !.reaction = r]
                /\ Abandon(Step(f, r), t, 0) = [abandoned EXCEPT !.reaction = r]

\* A tracker that tracked an interaction and was then ended while a listener
\* that calls back into it was registered and handled the terminal event.
TerminalEventHandled ==
  \E t \in Live :
    /\ isCompleted[t]
    /\ state[t].totalInteractions > 0
    /\ "cbReenter" \in Range(eventSenders[t])
    /\ SentBy(received["cbReenter"], t, IsTerminalEvent) = 1

\* What answerQuestion(q, ...) does on tracker t, for every question id, answer
\* and browser fault: it appends one 'answered' event for q, with the given
\* isCorrect, whose timeToAnswer is defined exactly when the current-question
\* pointer is q, and is then now minus the recorded start time and >= 0; it
\* increments totalQuestions, and correctQuestions iff isCorrect.
AnswerRecordsIn(t) ==
  \A q \in QuestionIds, a \in Answers, f \in AllFaults :
    LET s == state[t]
        s2 == AnswerQuestion(Step(f, [op |-> "none"]), t, q, a.isCorrect, a.hintsUsed, 0).state[t]
        at == Len(s.questions) + 1
    IN /\ Len(s2.questions) = at
       /\ SubSeq(s2.questions, 1, at - 1) = s.questions
       /\ LET e == s2.questions[at]
          IN /\ e.eventType = "answered"
             /\ e.questionId = q
             /\ e.isCorrect = Some(a.isCorrect)
             /\ (IsDefined(e.timeToAnswer) <=> (s.currentQuestionId = Some(q)))
             /\ (s.currentQuestionId = Some(q)) =>
                  /\ e.timeToAnswer = Some(now - Get(s.currentQuestionStartTime))
                  /\ Get(e.timeToAnswer) >= 0
       /\ s2.totalQuestions = s.totalQuestions + 1
       /\ s2.correctQuestions = s.correctQuestions + (IF a.isCorrect THEN 1 ELSE 0)

\* C6 (as amended): in every non-terminal state of a tracker with question
\* tracking enabled, answerQuestion(id, ...) records an 'answered' event and
\* increments totalQuestions (and correctQuestions iff isCorrect), and the
\* event's timeToAnswer is defined exactly when the current-question pointer
\* equals id, in which case it is now minus the recorded start time, >= 0.
AnswerRecordsWhenTracking ==
  \A t \in Live : (~isCompleted[t] /\ config[t].trackQuestions) => AnswerRecordsIn(t)

\* C6 as stated: the same in every non-terminal state, whatever the
\* configuration.
AnswerAlwaysRecords ==
  \A t \in Live : ~isCompleted[t] => AnswerRecordsIn(t)

\* A tracker that, after time had passed, recorded an answer to the open
\* question and an answer to a question that was not open.
AnsweredWithAndWithoutTime ==
  \E t \in Live :
    \E i, j \in 1..Len(state[t].questions) :
      /\ state[t].questions[i].eventType = "answered"
      /\ state[t].questions[i].timeToAnswer = Some(1)
      /\ state[t].questions[j].eventType = "answered"
      /\ state[t].questions[j].timeToAnswer = Undefined

\* C7: every sink receives the events of one tracker in the order in which
\* the calls that emitted them were made.
SinksInCallOrder ==
  \A log \in Sinks :
    \A i, j \in 1..Len(log) :
      (i < j /\ log[i].from = log[j].from) => log[i].call <= log[j].call

Occurrences(seq, x) == Len(SelectSeq(seq, LAMBDA y : y = x))
FromCall(log, call) == Len(SelectSeq(log, LAMBDA d : d.call = call))

\* The n events of the call have reached the channel and every callback
\* registered on t when the call was made, once per registration, and the
\* call has returned normally.
Delivered(w, t, call, n) ==
  /\ ~w.exc
  /\ FromCall(w.posted, call) = n
  /\ \A cb \in Callbacks :
       FromCall(w.received[cb], call) = n * Occurrences(eventSenders[t], cb)

\* What cbReenter may do during a call on t that leaves the registrations of t
\* as they are.
TrackerReactionsOf(t) ==
  {r \in ReactionsOf(t) : r.op \notin {"addEventListener", "removeEventListener"}}

\* C8: on a tracker with a throwing callback registered, every emitting call
\* (with postMessage working, and whatever tracker method another callback
\* calls meanwhile) hands its events to the channel and to every registered
\* callback, returns normally, and has applied its change of state.
ThrowingListenerIsIsolated ==
  \A t \in Live :
    (~isCompleted[t] /\ "cbThrow" \in Range(eventSenders[t])) =>
      \A f \in {"none", "storage"}, r \in TrackerReactionsOf(t) :
        LET w == Step(f, r)
            call == callSeq + 1
            tracked == TrackInteraction(w, t, 0)
            started == StartQuestion(w, t, "q1", 0)
            answered == AnswerQuestion(w, t, "q1", TRUE, Undefined, 0)
            completed == Complete(w, t, Undefined, Undefined, 0)
            abandoned == Abandon(w, t, 0)
        IN /\ Delivered(tracked, t, call, 1)
           /\ \E i \in 1..Len(tracked.state[t].interactions) :
                tracked.state[t].interactions[i].elementId = call
           /\ config[t].trackQuestions =>
                /\ Delivered(started, t, call, 1)
                /\ Len(started.state[t].questions) > Len(state[t].questions)
                /\ Delivered(answered, t, call, 1)
                /\ answered.state[t].totalQuestions > state[t].totalQuestions
           /\ Delivered(completed, t, call, 2)
           /\ completed.isCompleted[t]
           /\ Delivered(abandoned, t, call, 1)
           /\ abandoned.isCompleted[t]

\* A call whose event went to a throwing callback, then to the callback
\* registered after it, and to the channel.
ThrowThenDeliver ==
  \E t \in Live :
    /\ eventSenders[t] = <<"cbThrow", "cbLog">>
    /\ \E c \in 1..callSeq :
         /\ FromCall(received["cbThrow"], c) = 1
         /\ FromCall(received["cbLog"], c) = 1
         /\ FromCall(posted, c) = 1

\* C9: no operation raises to its caller, whatever throws underneath.
NoOperationRaises == ~raised

\* What C10 says of the second tracker t2: constructed with the block id and
\* storage key of the first, t1, it has the session state of t1 (sessionId,
\* startTime, events in order, counters) and emits one 'started' session
\* event carrying that sessionId.
SecondTrackerContinues ==
  \A c \in ConfigsOf("t2") :
    LET before == Step("none", [op |-> "none"])
        after == Construct(before, "t2", c)
    IN /\ ~after.exc
       /\ after.state["t2"] = state["t1"]
       /\ Len(after.posted) = Len(posted) + 1
       /\ LET d == after.posted[Len(after.posted)]
          IN /\ d.from = "t2"
             /\ d.event.type = "BLOCK_SESSION"
             /\ d.event.eventType = "started"
             /\ d.event.sessionId = state["t1"].sessionId

\* The first tracker persists, has made a mutating call, and complete() has
\* not been called on it; the second is yet to be constructed.
FirstTrackerHasSession ==
  /\ constructed["t1"]
  /\ ~constructed["t2"]
  /\ config["t1"].persistSession
  /\ CallsOf("t1", "complete") = << >>
  /\ \E i \in 1..Len(callLog["t1"]) : callLog["t1"][i].op \in TrackingOps

SessionIdsInUse ==
  {state[u].sessionId : u \in Live}
    \cup {Parse(localStorage[k]).sessionId : k \in {x \in DOMAIN localStorage : Parses(localStorage[x])}}

\* C11: a tracker constructed with persistence enabled adopts the stored
\* record exactly when the key is present, the access does not throw, the
\* text parses and its blockId is the configured one, and its state is then
\* the record read back; otherwise it starts a new session for its block, at
\* the current time, with empty sequences, zero counters and a session id not
\* in use.  In either case the construction leaves localStorage as it was.
RestoreOnlyOwnBlock ==
  \A t \in Trackers \ Live :
    \A c \in {x \in StoringConfigs : x.persistSession = Some(TRUE)}, f \in AllFaults :
      LET after == Construct(Step(f, [op |-> "none"]), t, c)
          key == Get(c.sessionStorageKey)
          adopts == /\ f # "storage"
                    /\ key \in DOMAIN localStorage
                    /\ Parses(localStorage[key])
                    /\ Parse(localStorage[key]).blockId = Get(c.blockId)
          new == after.state[t]
      IN /\ after.localStorage = localStorage
         /\ ~after.exc
         /\ adopts => new = Parse(localStorage[key])
         /\ ~adopts =>
              /\ new = NewSession(new.sessionId, Get(c.blockId), now)
              /\ new.sessionId \notin SessionIdsInUse

\* A tracker that was constructed, persisting, on a key that holds the record
\* of another block, and started a session of its own.
OtherBlockNotAdopted ==
  \E t \in Live :
    /\ config[t].persistSession
    /\ Len(callLog[t]) = 1
    /\ callLog[t][1].fault = "none"
    /\ SharedKey \in DOMAIN localStorage
    /\ Parses(localStorage[SharedKey])
    /\ Parse(localStorage[SharedKey]).blockId # config[t].blockId
    /\ Parse(localStorage[SharedKey]).totalInteractions > 0
    /\ state[t] = NewSession(state[t].sessionId, config[t].blockId, state[t].startTime)
    /\ state[t].sessionId # Parse(localStorage[SharedKey]).sessionId

\* The step is a call of one of ops made on tracker t by the page: the first
\* entry the step adds to the log of t.  (Entries after it are calls that
\* listeners made during the call.)
CallStep(t, ops) ==
  /\ Len(callLog'[t]) > Len(callLog[t])
  /\ callLog'[t][Len(callLog[t]) + 1].op \in ops

StorageWorked(t) == callLog'[t][Len(callLog[t]) + 1].fault # "storage"

AllOps == TrackingOps \cup {"constructor", "complete", "abandon",
                            "addEventListener", "removeEventListener"}

\* C12: when trackInteraction, startQuestion, answerQuestion or skipQuestion
\* has passed its guard on a persisting tracker and returns, with storage
\* working, the record under the tracker's key is the serialization of the
\* tracker's state, the event just appended included, whatever the listeners
\* did meanwhile; a call on a tracker that does not persist, its construction
\* included, leaves localStorage as it was, and on a page whose trackers do
\* not persist no step (timer ticks included) changes localStorage.
WriteThroughStep ==
  /\ \A t \in Trackers :
       (CallStep(t, TrackingOps) /\ config'[t].persistSession /\ StorageWorked(t)) =>
         /\ config'[t].sessionStorageKey \in DOMAIN localStorage'
         /\ localStorage'[config'[t].sessionStorageKey] = Stringify(state'[t])
  /\ \A t \in Trackers :
       (CallStep(t, AllOps) /\ ~config'[t].persistSession) => localStorage' = localStorage
  /\ (\A t \in Trackers : constructed'[t] => ~config'[t].persistSession)
       => localStorage' = localStorage

WriteThrough == [][WriteThroughStep]_vars

\* A persisting tracker whose record holds what it tracked during a call and
\* what a listener made it track during that call.
WroteThrough ==
  \E t \in Live :
    /\ config[t].persistSession
    /\ "cbReenter" \in Range(eventSenders[t])
    /\ state[t].totalInteractions = 2
    /\ config[t].sessionStorageKey \in DOMAIN localStorage
    /\ localStorage[config[t].sessionStorageKey] = Stringify(state[t])

\* complete() has been called on t, and its removal from storage did not throw.
CompletedAndCleared(t) ==
  \E i \in 1..Len(callLog[t]) :
    callLog[t][i].op = "complete" /\ callLog[t][i].fault # "storage"

\* C13: once complete() has returned on a persisting tracker, the only one on
\* its key, with the removal succeeding, no record exists under the key: the
\* completed tracker writes none afterwards, and a tracker constructed later
\* finds nothing to restore.
NoRecordAfterComplete ==
  \A t \in Live :
    (OneTracker /\ config[t].persistSession /\ CompletedAndCleared(t))
      => config[t].sessionStorageKey \notin DOMAIN localStorage

\* The calls of tracker t that ended its session.
TerminalCalls(t) ==
  {i \in 1..Len(callLog[t]) : callLog[t][i].op \in {"complete", "abandon"}}

\* C14: a tracker has a progress timer exactly when its progressUpdateInterval
\* is above 0; the timer runs until the one call of complete or abandon that
\* ends the session and is cancelled from then on, whatever is called later;
\* and the interval callback of a tracker whose session has ended leaves
\* localStorage as it is.
TimerCancelledOnce ==
  \A t \in Live :
    /\ IsDefined(progressTimer[t]) <=> config[t].progressUpdateInterval > 0
    /\ Cardinality(TerminalCalls(t)) <= 1
    /\ isCompleted[t] <=> TerminalCalls(t) # {}
    /\ IsDefined(progressTimer[t])
         => (Get(progressTimer[t]) \in intervals <=> TerminalCalls(t) = {})
    /\ isCompleted[t]
         => \A f \in AllFaults :
              ProgressUpdate(Step(f, [op |-> "none"]), t).localStorage = localStorage

\* A tracker whose timer ran and was cancelled by complete,
\* next to a tracker configured without a timer.
TimerRanAndStopped ==
  \E t \in Live, u \in Live :
    /\ IsDefined(progressTimer[t])
    /\ Get(progressTimer[t]) \notin intervals
    /\ \E i \in TerminalCalls(t) : callLog[t][i].op = "complete"
    /\ config[u].progressUpdateInterval <= 0
    /\ ~IsDefined(progressTimer[u])
    /\ isCompleted[u]

\* The 'editor:init' messages posted for store id i, in order.
InitsOf(log, i) ==
  SelectSeq(log, LAMBDA d : d.event.type = "editor:init" /\ d.event.storeId = i)

\* A step in which a registered store id keeps its instance and gets no
\* further 'editor:init', and a store id that is registered gets at most one
\* 'editor:init', which carries the fields of the instance registered.
FirstRegistrationStep ==
  /\ \A i \in DOMAIN registeredContents :
       /\ i \in DOMAIN registeredContents'
       /\ registeredContents'[i] = registeredContents[i]
       /\ InitsOf(posted', i) = InitsOf(posted, i)
  /\ \A i \in StoreIds \ DOMAIN registeredContents :
       /\ Len(InitsOf(posted', i)) <= 1
       /\ InitsOf(posted', i) # << >>
            => /\ i \in DOMAIN registeredContents'
               /\ InitsOf(posted', i)[1].event = InitMessage(registeredContents'[i])

\* A construction with a registered store id posts nothing, leaves the
\* registry as it is and raises nothing, whatever the browser does.
LaterConstructionInert ==
  \A dto \in Dtos, f \in AllFaults :
    dto.id \in DOMAIN registeredContents
      => LET after == RegisteredContent(Step(f, [op |-> "none"]), dto)
         IN /\ after.posted = posted
            /\ after.registeredContents = registeredContents
            /\ ~after.exc

\* C15: for every store id at most one 'editor:init' is posted, by the
\* construction that registers the id, with the fields of the instance then
\* registered; from then on a construction with the id posts nothing and no
\* step changes the instance the registry holds for the id.
FirstRegistrationWins == []LaterConstructionInert /\ [][FirstRegistrationStep]_vars

\* Two contents with one store id were constructed, the registry holds the
\* one announced by the only 'editor:init' of the id.
SecondConstructionInert ==
  \E i \in DOMAIN registeredContents :
    /\ Cardinality({dto \in contents : dto.id = i}) = 2
    /\ Len(InitsOf(posted, i)) = 1
    /\ InitsOf(posted, i)[1].event = InitMessage(registeredContents[i])

\* C16: inlineUpdateRegisteredContent(storeId, path, value) with a store id
\* the registry does not hold posts nothing, changes nothing and raises
\* nothing; with a registered store id it posts one 'editor:inline-update'
\* with the id and paths of the registered instance and the given path and
\* value, raises nothing and leaves the registry as it is.
InlineUpdateForwards ==
  \A i \in StoreIds, f \in FaultsNow :
    LET after == InlineUpdateRegisteredContent(Step(f, [op |-> "none"]), i, "p", "v")
    IN /\ after.registeredContents = registeredContents
       /\ ~after.exc
       /\ IF i \in DOMAIN registeredContents
          THEN /\ Len(after.posted) = Len(posted) + 1
               /\ SubSeq(after.posted, 1, Len(posted)) = posted
               /\ after.posted[Len(after.posted)].event
                    = InlineUpdateMessage(registeredContents[i], "p", "v")
          ELSE after.posted = posted

\* The session events handed to some sink.
SessionEventsSent ==
  UNION {{log[i].event : i \in {j \in 1..Len(log) : log[j].event.type = "BLOCK_SESSION"}} :
           log \in Sinks}

SessionEventTypes == {"started", "completed", "abandoned"}

\* The places of the answered events among the question events.
AnsweredIn(questions) ==
  {i \in 1..Len(questions) : questions[i].eventType = "answered"}

\* The accuracy rate of a session with these question events: undefined
\* without an answered event, else the answered events with isCorrect true
\* over the answered events.
AccuracyOf(questions) ==
  LET answered == AnsweredIn(questions)
      correct == {i \in answered : questions[i].isCorrect = Some(TRUE)}
  IN IF answered = {} THEN Undefined
     ELSE Some(Ratio(Cardinality(correct), Cardinality(answered)))

\* C17: the accuracyRate of a session event is undefined when the session has
\* no answered question event and else the number of answered events with
\* isCorrect true over the number of answered events, a quotient with a
\* divisor above 0: in the session event a tracker would emit now, of every
\* type, and in every session event emitted with its details.
AccuracyRateOverAnswered ==
  /\ \A t \in Live, eventType \in SessionEventTypes :
       LET rate == SessionEvent(World, t, eventType, NoData).summary.accuracyRate
       IN /\ rate = AccuracyOf(state[t].questions)
          /\ IsDefined(rate) => Get(rate)[2] > 0
  /\ \A e \in SessionEventsSent :
       IsDefined(e.details)
         => e.summary.accuracyRate = AccuracyOf(Get(e.details).questions)

\* A 'completed' session event of a session with one correct and one
\* incorrect answer was emitted with the accuracy rate 1/2, after a 'started'
\* event without an accuracy rate.
HalfAccurate ==
  \E e \in SessionEventsSent, b \in SessionEventsSent :
    /\ e.eventType = "completed"
    /\ e.summary.accuracyRate = Some(Ratio(1, 2))
    /\ b.eventType = "started"
    /\ b.sessionId = e.sessionId
    /\ b.summary.accuracyRate = Undefined

\* The mean time to answer of a session with these question events: over the
\* answered events that have a timeToAnswer, undefined when there is none.
RECURSIVE SumOfTimes(_, _)
SumOfTimes(questions, places) ==
  IF places = {} THEN 0
  ELSE LET i == CHOOSE j \in places : TRUE
       IN Get(questions[i].timeToAnswer) + SumOfTimes(questions, places \ {i})

MeanTimeOf(questions) ==
  LET timed == {i \in AnsweredIn(questions) : IsDefined(questions[i].timeToAnswer)}
  IN IF timed = {} THEN Undefined
     ELSE Some(Ratio(SumOfTimes(questions, timed), Cardinality(timed)))

\* Two optional quotients are the same number, or both undefined.
SameQuotient(a, b) ==
  /\ IsDefined(a) <=> IsDefined(b)
  /\ IsDefined(a) => Get(a)[1] * Get(b)[2] = Get(b)[1] * Get(a)[2]

\* C18: the averageTimePerQuestion of a session event is the mean of
\* timeToAnswer over the answered question events that have a timeToAnswer,
\* and undefined when the session has none: in the session event a tracker
\* would emit now, of every type, and in every session event emitted with its
\* details.
AverageTimeOverTimed ==
  /\ \A t \in Live, eventType \in SessionEventTypes :
       SameQuotient(SessionEvent(World, t, eventType, NoData).summary.averageTimePerQuestion,
                    MeanTimeOf(state[t].questions))
  /\ \A e \in SessionEventsSent :
       IsDefined(e.details)
         => SameQuotient(e.summary.averageTimePerQuestion,
                         MeanTimeOf(Get(e.details).questions))

\* The hints used in a session with these question events, an event without
\* hintsUsed counting 0.
RECURSIVE SumOfHints(_, _)
SumOfHints(questions, places) ==
  IF places = {} THEN 0
  ELSE LET i == CHOOSE j \in places : TRUE
       IN (IF IsDefined(questions[i].hintsUsed) THEN Get(questions[i].hintsUsed) ELSE 0)
            + SumOfHints(questions, places \ {i})

HintsOf(questions) == SumOfHints(questions, 1..Len(questions))

\* C19: the hintsUsedTotal of a session event is the sum of hintsUsed over all
\* question events of the session, started, answered and skipped, an event
\* without hintsUsed counting 0: in the session event a tracker would emit
\* now, of every type, and in every session event emitted with its details.
HintsSummedOverAll ==
  /\ \A t \in Live, eventType \in SessionEventTypes :
       SessionEvent(World, t, eventType, NoData).summary.hintsUsedTotal
         = HintsOf(state[t].questions)
  /\ \A e \in SessionEventsSent :
       IsDefined(e.details) => e.summary.hintsUsedTotal = HintsOf(Get(e.details).questions)

\* A 'completed' session event with hintsUsedTotal 2 was emitted for a session
\* with an answered event with two hints followed by a skipped event.
HintsOfAnsweredAndSkipped ==
  \E e \in SessionEventsSent :
    /\ e.eventType = "completed"
    /\ e.summary.hintsUsedTotal = 2
    /\ IsDefined(e.details)
    /\ \E i, j \in 1..Len(Get(e.details).questions) :
         /\ i < j
         /\ Get(e.details).questions[i].eventType = "answered"
         /\ Get(e.details).questions[i].hintsUsed = Some(2)
         /\ Get(e.details).questions[j].eventType = "skipped"

\* The calls of tracker t that passed their guard in this step, as places of
\* callLog'[t].
NewCalls(t) == (Len(callLog[t]) + 1)..Len(callLog'[t])

PointerUnset(s) ==
  s.currentQuestionId = Undefined /\ s.currentQuestionStartTime = Undefined

\* What C20 says of a step: when an answerQuestion call passed its guard in
\* it, the pointer is unset after it.
PointerClearedStep ==
  \A t \in Trackers :
    (\E i \in NewCalls(t) : callLog'[t][i].op = "answerQuestion") => PointerUnset(state'[t])

PointerAlwaysCleared == [][PointerClearedStep]_vars

\* A step in which an answerQuestion call passed its guard and no
\* startQuestion call passed its guard after it leaves the pointer unset.
PointerClearedUnlessReopenedStep ==
  \A t \in Trackers :
    (\E i \in NewCalls(t) :
       /\ callLog'[t][i].op = "answerQuestion"
       /\ \A j \in NewCalls(t) : j > i => callLog'[t][j].op # "startQuestion")
      => PointerUnset(state'[t])

\* C20 (as amended): an answerQuestion call that passes its guards unsets
\* currentQuestionId and currentQuestionStartTime, whether or not it answers
\* the open question, and they are unset when the call returns unless a
\* listener has called startQuestion meanwhile.
PointerClearedUnlessReopened == [][PointerClearedUnlessReopenedStep]_vars

\* q1 was started and another question answered: the pointer is unset.
AnsweredAnotherQuestion ==
  \E t \in Live :
    /\ Len(state[t].questions) = 2
    /\ state[t].questions[1].eventType = "started"
    /\ state[t].questions[2].eventType = "answered"
    /\ state[t].questions[2].questionId # state[t].questions[1].questionId
    /\ Len(callLog[t]) = 3
    /\ PointerUnset(state[t])

\* The question events of tracker t end with a 'started' event of one question
\* followed by an 'answered' event of another.
AnsweredOtherThanStarted(t) ==
  LET questions == state[t].questions
      n == Len(questions)
  IN /\ n >= 2
     /\ questions[n - 1].eventType = "started"
     /\ questions[n].eventType = "answered"
     /\ questions[n].questionId # questions[n - 1].questionId

\* What C21 says: after startQuestion(q1) followed by answerQuestion(q2), q2
\* another question than q1, currentQuestionId is still q1.
PointerKeptByOtherAnswer ==
  \A t \in Live :
    AnsweredOtherThanStarted(t)
      => state[t].currentQuestionId
           = Some(state[t].questions[Len(state[t].questions) - 1].questionId)

\* C21 (as amended): currentQuestionId, set by startQuestion, is cleared by the
\* next answerQuestion that passes its guards, of whatever question: after
\* startQuestion(q1) followed by answerQuestion(q2), q2 another question than
\* q1, the pointer is unset, and an answerQuestion of any question, q1
\* included, would get no timeToAnswer.
PointerClearedByOtherAnswer ==
  \A t \in Live :
    AnsweredOtherThanStarted(t)
      => /\ PointerUnset(state[t])
         /\ \A q \in QuestionIds : TimeToAnswer(state[t], q, now) = Undefined

\* q1 was started, q2 answered, then q1 answered without a timeToAnswer.
StartedQuestionAnsweredUntimed ==
  \E t \in Live :
    /\ Len(state[t].questions) = 3
    /\ state[t].questions[1].eventType = "started"
    /\ state[t].questions[2].eventType = "answered"
    /\ state[t].questions[2].questionId # state[t].questions[1].questionId
    /\ state[t].questions[3].eventType = "answered"
    /\ state[t].questions[3].questionId = state[t].questions[1].questionId
    /\ state[t].questions[3].timeToAnswer = Undefined

\* The deliveries of session events, to any sink.
SessionDeliveries ==
  UNION {{log[i] : i \in {j \in 1..Len(log) : log[j].event.type = "BLOCK_SESSION"}} :
           log \in Sinks}

PostedBy(t) == SelectSeq(posted, LAMBDA d : d.from = t)

\* The complete calls of tracker t that passed the guard, as call ordinals.
CompleteCalls(t) ==
  {callLog[t][i].call : i \in {j \in 1..Len(callLog[t]) : callLog[t][j].op = "complete"}}

\* Delivery l is the legacy event that goes with the 'completed' delivery d.
LegacyOf(d, l) ==
  /\ IsLegacyEvent(l)
  /\ l.call = d.call
  /\ l.event.completed
  /\ l.event.score = d.event.summary.score
  /\ l.event.maxScore = d.event.summary.maxScore
  /\ l.event.timeSpent = Some(d.event.summary.timeSpent)

\* C23: on the cross-frame channel a tracker with sendLegacyEvent has every
\* 'completed' session event followed at once by a BLOCK_COMPLETION event of
\* the same call with the same score, maxScore and timeSpent, and every
\* BLOCK_COMPLETION event preceded at once by such a 'completed' event; it gets
\* one when complete has run with postMessage working; a tracker without
\* sendLegacyEvent emits none; and whatever sink gets a BLOCK_COMPLETION event
\* gets it from a complete call, never from abandon, the constructor or a
\* tracking call.
LegacyFollowsCompleted ==
  /\ \A t \in Live :
       LET log == PostedBy(t)
       IN /\ \A i \in 1..Len(log) :
               /\ IsLegacyEvent(log[i])
                    => i > 1 /\ IsCompletedEvent(log[i - 1]) /\ LegacyOf(log[i - 1], log[i])
               /\ (IsCompletedEvent(log[i]) /\ config[t].sendLegacyEvent)
                    => i < Len(log) /\ LegacyOf(log[i], log[i + 1])
          /\ SentBy(posted, t, IsLegacyEvent) =
               IF /\ config[t].sendLegacyEvent
                  /\ \E i \in 1..Len(callLog[t]) :
                       callLog[t][i].op = "complete" /\ callLog[t][i].fault # "postMessage"
               THEN 1 ELSE 0
  /\ \A log \in Sinks :
       \A i \in 1..Len(log) :
         IsLegacyEvent(log[i])
           => /\ config[log[i].from].sendLegacyEvent
              /\ log[i].call \in CompleteCalls(log[i].from)

\* A tracker completed with a score and sent the legacy event after the
\* 'completed' event; another, without sendLegacyEvent, completed and sent
\* none.
LegacySentAndNotSent ==
  \E t \in Live, u \in Live :
    /\ config[t].sendLegacyEvent
    /\ \E i \in 2..Len(PostedBy(t)) :
         /\ LegacyOf(PostedBy(t)[i - 1], PostedBy(t)[i])
         /\ PostedBy(t)[i].event.score = Some(1)
    /\ ~config[u].sendLegacyEvent
    /\ SentBy(posted, u, IsCompletedEvent) = 1
    /\ SentBy(posted, u, IsLegacyEvent) = 0

IsStartedEvent(d) == IsSessionEvent(d, {"started"})

\* The constructor of tracker t ran with postMessage working.
StartedWasPosted(t) == callLog[t][1].fault # "postMessage"

\* C24: a tracker sends one 'started' session event, from its constructor and
\* with the id of its session, new or restored, to the cross-frame channel
\* (none when postMessage threw then), ahead of everything else it sends
\* there; the listeners, registered later, get none; so the 'started' events
\* with one sessionId are as many as the trackers that started or restored
\* that session.
StartedOncePerTracker ==
  /\ \A t \in Live :
       /\ callLog[t][1].op = "constructor"
       /\ SentBy(posted, t, IsStartedEvent) = IF StartedWasPosted(t) THEN 1 ELSE 0
       /\ StartedWasPosted(t)
            => /\ IsStartedEvent(PostedBy(t)[1])
               /\ PostedBy(t)[1].call = callLog[t][1].call
               /\ PostedBy(t)[1].event.sessionId = state[t].sessionId
       /\ \A cb \in Callbacks : SentBy(received[cb], t, IsStartedEvent) = 0
  /\ \A sid \in {state[t].sessionId : t \in Live} :
       Len(SelectSeq(posted, LAMBDA d : IsStartedEvent(d) /\ d.event.sessionId = sid))
         = Cardinality({t \in Live : state[t].sessionId = sid /\ StartedWasPosted(t)})

\* A session restored once, by a second tracker that went on tracking: two
\* 'started' events carry its id.
StartedTwiceForOneSession ==
  \E t \in Live, u \in Live :
    /\ t # u
    /\ state[t].sessionId = state[u].sessionId
    /\ Len(PostedBy(u)) >= 2
    /\ Len(SelectSeq(posted, LAMBDA d : IsStartedEvent(d)
                                        /\ d.event.sessionId = state[t].sessionId)) = 2

\* The events handed to some sink, with the tracker they come from.
Deliveries == UNION {Range(log) : log \in Sinks}

\* C25: every event a tracker emits, a BLOCK_COMPLETION event included,
\* carries a timestamp that is the time of a call made so far and the
\* sessionId of the tracker's session.
EveryEventStamped ==
  \A d \in Deliveries :
    d.from \in Trackers
      => /\ "timestamp" \in DOMAIN d.event
         /\ "sessionId" \in DOMAIN d.event
         /\ d.event.timestamp \in 1..now
         /\ d.event.sessionId = state[d.from].sessionId

QuestionOps == {"startQuestion", "answerQuestion", "skipQuestion"}

\* The state of tracker t holds an event for every tracking call that passed
\* its guard, whatever failed during the call.
EveryCallKept(t) ==
  /\ Len(state[t].interactions)
       = Len(restored[t].interactions) + Len(CallsOf(t, "trackInteraction"))
  /\ \A i \in 1..Len(callLog[t]) :
       callLog[t][i].op = "trackInteraction"
         => \E e \in Range(state[t].interactions) : e.elementId = callLog[t][i].call
  /\ Len(state[t].questions)
       = Len(restored[t].questions)
           + Len(SelectSeq(callLog[t], LAMBDA c : c.op \in QuestionOps))

\* A step that writes to storage, a tracking call or a timer tick, on a
\* persisting tracker leaves the whole state of the tracker in the record.
StoresLatestStep ==
  /\ \A t \in Trackers :
       (CallStep(t, TrackingOps) /\ config'[t].persistSession /\ StorageWorked(t))
         => /\ config'[t].sessionStorageKey \in DOMAIN localStorage'
            /\ Parse(localStorage'[config'[t].sessionStorageKey]) = state'[t]
  /\ (callLog' = callLog /\ localStorage' # localStorage)
       => \E t \in Live :
            /\ config[t].persistSession /\ ~isCompleted[t]
            /\ state'[t] = state[t]
            /\ localStorage' = [k \in DOMAIN localStorage \cup {config[t].sessionStorageKey} |->
                                  IF k = config[t].sessionStorageKey
                                  THEN Stringify(state[t]) ELSE localStorage[k]]

\* No event of a call during which postMessage threw is on the cross-frame
\* channel.
NeverSentAgain ==
  \A t \in Live :
    \A i \in 1..Len(callLog[t]) :
      callLog[t][i].fault = "postMessage" => FromCall(posted, callLog[t][i].call) = 0

\* C26: the state keeps the event of every tracking call, also of one whose
\* storage write failed; every later tracking call or timer tick that writes
\* leaves the whole state, those events included, in the record; and an event
\* whose postMessage threw never reaches the cross-frame channel afterwards.
PersistenceHealsEmissionNot ==
  [](\A t \in Live : EveryCallKept(t)) /\ []NeverSentAgain /\ [][StoresLatestStep]_vars

\* A trackInteraction whose write failed, then one whose write worked: the
\* record holds both events.
HealedRecord ==
  \E t \in Live :
    /\ config[t].persistSession
    /\ \E i, j \in 1..Len(callLog[t]) :
         /\ i < j
         /\ callLog[t][i].op = "trackInteraction" /\ callLog[t][i].fault = "storage"
         /\ callLog[t][j].op = "trackInteraction" /\ callLog[t][j].fault = "none"
    /\ config[t].sessionStorageKey \in DOMAIN localStorage
    /\ Len(Parse(localStorage[config[t].sessionStorageKey]).interactions) = 2
    /\ Parse(localStorage[config[t].sessionStorageKey]) = state[t]

\* The log entry of the call of tracker t that passed its guard first in this
\* step.
ThisCall(t) == callLog'[t][Len(callLog[t]) + 1]

\* C27: a tracking call during which postMessage throws appends its event to
\* the state, keeps the counters in step with the events, hands the event to
\* every listener registered when it is emitted, once per registration,
\* leaves the state in the record when the tracker persists, and puts nothing
\* on the cross-frame channel.
LocalEffectsSurviveStep ==
  \A t \in Trackers :
    (CallStep(t, TrackingOps) /\ ThisCall(t).fault = "postMessage")
      => /\ IF ThisCall(t).op = "trackInteraction"
            THEN /\ Len(state'[t].interactions) > Len(state[t].interactions)
                 /\ state'[t].interactions[Len(state[t].interactions) + 1].elementId
                      = ThisCall(t).call
                 /\ state'[t].totalInteractions > state[t].totalInteractions
            ELSE /\ Len(state'[t].questions) > Len(state[t].questions)
                 /\ state'[t].questions[Len(state[t].questions) + 1].eventType
                      = (CASE ThisCall(t).op = "startQuestion" -> "started"
                           [] ThisCall(t).op = "answerQuestion" -> "answered"
                           [] OTHER -> "skipped")
                 /\ ThisCall(t).op = "answerQuestion"
                      => state'[t].totalQuestions > state[t].totalQuestions
         /\ CountersMatch(state[t]) => CountersMatch(state'[t])
         /\ \A cb \in Callbacks :
              FromCall(received'[cb], ThisCall(t).call) = Occurrences(eventSenders[t], cb)
         /\ config'[t].persistSession
              => /\ config'[t].sessionStorageKey \in DOMAIN localStorage'
                 /\ Parse(localStorage'[config'[t].sessionStorageKey]) = state'[t]
         /\ FromCall(posted', ThisCall(t).call) = 0

LocalEffectsSurvive == [][LocalEffectsSurviveStep]_vars

\* postMessage threw during a trackInteraction of a persisting tracker with a
\* listener: the listener has the event, the state and the record hold it,
\* the cross-frame channel does not.
HandledWithoutChannel ==
  \E t \in Live :
    \E i \in 1..Len(callLog[t]) :
      /\ callLog[t][i].op = "trackInteraction"
      /\ callLog[t][i].fault = "postMessage"
      /\ FromCall(received["cbLog"], callLog[t][i].call) = 1
      /\ FromCall(posted, callLog[t][i].call) = 0
      /\ \E e \in Range(state[t].interactions) : e.elementId = callLog[t][i].call
      /\ config[t].persistSession
      /\ config[t].sessionStorageKey \in DOMAIN localStorage
      /\ Parse(localStorage[config[t].sessionStorageKey]) = state[t]

IsAbandonedEvent(d) == IsSessionEvent(d, {"abandoned"})

\* C28: the unload handler of a tracker whose session has ended returns the
\* world it was called in; on a tracker whose session is open it ends the
\* session with one 'abandoned' session event on the cross-frame channel (none
\* when postMessage throws) and one per registration for every listener, and
\* a further unload signal then changes nothing.
UnloadAbandonsOnce ==
  \A t \in Live :
    \A f \in FaultsOf(config[t].persistSession), r \in ReactionsOf(t) :
      LET before == Step(f, r)
          after == UnloadHandler(before, t)
      IN IF isCompleted[t] THEN after = before
         ELSE /\ after.isCompleted[t]
              /\ ~after.exc
              /\ SentBy(after.posted, t, IsAbandonedEvent) = IF f = "postMessage" THEN 0 ELSE 1
              /\ \A cb \in Callbacks :
                   SentBy(after.received[cb], t, IsAbandonedEvent)
                     = Occurrences(eventSenders[t], cb)
              /\ UnloadHandler(after, t) = after

\* The page unloaded under a tracker with a listener: one 'abandoned' event
\* on the channel and one for the listener.
AbandonedOnUnload ==
  \E t \in Live :
    /\ isCompleted[t]
    /\ CallsOf(t, "complete") = << >>
    /\ Len(CallsOf(t, "abandon")) = 1
    /\ SentBy(posted, t, IsAbandonedEvent) = 1
    /\ SentBy(received["cbLog"], t, IsAbandonedEvent) = 1

\* A step of a call on tracker t leaves every record of another block than
\* t's in storage, as it is.
OtherBlocksKeptStep ==
  \A t \in Trackers :
    CallStep(t, AllOps)
      => \A k \in DOMAIN localStorage :
           (Parses(localStorage[k]) /\ Parse(localStorage[k]).blockId # config'[t].blockId)
             => /\ k \in DOMAIN localStorage'
                /\ localStorage'[k] = localStorage[k]

\* C29: no call on a tracker overwrites or removes the persisted record of
\* another block, also when the two trackers were given one sessionStorageKey.
OtherBlocksKept == [][OtherBlocksKeptStep]_vars

\* C30: a callback that has been removed is invoked for no event again, the
\* event being dispatched included: when the listener called first removes
\* cbLog while it handles the event of a trackInteraction, cbLog is not handed
\* that event, nor is it registered afterwards.
RemovedListenerIsSilent ==
  \A t \in Live :
    (/\ ~isCompleted[t]
     /\ config[t].trackInteractions /\ config[t].sendDetailedEvents
     /\ eventSenders[t] # << >>
     /\ eventSenders[t][1] = "cbReenter")
      => LET after == TrackInteraction(Step("none", [op |-> "removeEventListener"]), t, 0)
         IN /\ "cbLog" \notin Range(after.eventSenders[t])
            /\ after.received["cbLog"] = received["cbLog"]

\* The one call of tracker t that passed its guard in this step is a call of
\* op: no listener called the tracker meanwhile.
OnlyCall(t, op) ==
  /\ Len(callLog'[t]) = Len(callLog[t]) + 1
  /\ ThisCall(t).op = op

\* C31: a skipQuestion that passes its guard appends one 'skipped' question
\* event, of the tracker's session and without timeToAnswer, isCorrect or
\* hintsUsed, and leaves the rest of the state, the counters, the interactions
\* and the pointer to the open question, as it was.
SkipOnlyAppendsStep ==
  \A t \in Trackers :
    OnlyCall(t, "skipQuestion")
      => \E q \in QuestionIds :
           state'[t] = [state[t] EXCEPT !.questions =
                          Append(@, [type |-> "BLOCK_QUESTION", eventType |-> "skipped",
                                     blockId |-> config[t].blockId,
                                     sessionId |-> state[t].sessionId,
                                     questionId |-> q, timestamp |-> now,
                                     timeToAnswer |-> Undefined, isCorrect |-> Undefined,
                                     hintsUsed |-> Undefined])]

SkipOnlyAppends == [][SkipOnlyAppendsStep]_vars

\* The open question was skipped and is still open.
SkippedTheOpenQuestion ==
  \E t \in Live :
    LET questions == state[t].questions
    IN /\ questions # << >>
       /\ questions[Len(questions)].eventType = "skipped"
       /\ state[t].currentQuestionId = Some(questions[Len(questions)].questionId)
       /\ IsDefined(state[t].currentQuestionStartTime)
       /\ callLog[t][Len(callLog[t])].op = "skipQuestion"

\* currentQuestionId and currentQuestionStartTime are set together.
PointerPaired ==
  \A t \in Live :
    IsDefined(state[t].currentQuestionId) <=> IsDefined(state[t].currentQuestionStartTime)

\* The 'started' question event of startQuestion(q) on tracker t now.
StartedEventOf(t, q) ==
  [type |-> "BLOCK_QUESTION", eventType |-> "started", blockId |-> config[t].blockId,
   sessionId |-> state[t].sessionId, questionId |-> q, timestamp |-> now,
   timeToAnswer |-> Undefined, isCorrect |-> Undefined, hintsUsed |-> Undefined]

\* A startQuestion that passes its guard makes its question the open one,
\* started now, whatever was open; it appends its 'started' event and changes
\* nothing else of the state; what it puts on the cross-frame channel is that
\* event and no other.
StartReplacesStep ==
  \A t \in Trackers :
    OnlyCall(t, "startQuestion")
      => \E q \in QuestionIds :
           /\ state'[t] = [state[t] EXCEPT !.currentQuestionId = Some(q),
                                           !.currentQuestionStartTime = Some(now),
                                           !.questions = Append(@, StartedEventOf(t, q))]
           /\ \/ posted' = posted
              \/ posted' = Append(posted, Delivery(t, StartedEventOf(t, q), ThisCall(t).call))

QuietTrackingStep ==
  \A t \in Trackers :
    (CallStep(t, TrackingOps) /\ ~config'[t].sendDetailedEvents) =>
      /\ posted' = posted
      /\ received' = received
      /\ OnlyCall(t, ThisCall(t).op)
      /\ Len(state'[t].interactions) + Len(state'[t].questions)
           = Len(state[t].interactions) + Len(state[t].questions) + 1
      /\ CountersMatch(state'[t])
      /\ StorageWorked(t) =>
           /\ config'[t].sessionStorageKey \in DOMAIN localStorage'
           /\ localStorage'[config'[t].sessionStorageKey] = Stringify(state'[t])

\* The terminal call c of tracker t put its session event on the channel.
TerminalWasPosted(t, c) ==
  \E d \in Range(posted) :
    /\ d.from = t
    /\ d.call = c.call
    /\ IsSessionEvent(d, {IF c.op = "complete" THEN "completed" ELSE "abandoned"})

TogglesRespected ==
  \A t \in Live :
    /\ ~config[t].trackInteractions =>
         /\ \A f \in AllFaults, r \in ReactionsOf(t) :
              TrackInteraction(Step(f, r), t, 0) = Step(f, r)
         /\ CallsOf(t, "trackInteraction") = << >>
         /\ state[t].interactions = restored[t].interactions
    /\ ~config[t].trackQuestions =>
         /\ \A f \in AllFaults, r \in ReactionsOf(t), q \in QuestionIds, a \in Answers :
              LET w == Step(f, r)
              IN /\ StartQuestion(w, t, q, 0) = w
                 /\ AnswerQuestion(w, t, q, a.isCorrect, a.hintsUsed, 0) = w
                 /\ SkipQuestion(w, t, q, 0) = w
         /\ SelectSeq(callLog[t], LAMBDA c : c.op \in QuestionOps) = << >>
         /\ state[t].questions = restored[t].questions
    /\ ~config[t].sendDetailedEvents =>
         /\ \A d \in Deliveries :
              d.from = t => d.event.type \in {"BLOCK_SESSION", "BLOCK_COMPLETION"}
         /\ SentBy(posted, t, IsStartedEvent) = IF StartedWasPosted(t) THEN 1 ELSE 0
         /\ \A i \in 1..Len(callLog[t]) :
              (callLog[t][i].op \in {"complete", "abandon"}
                 /\ callLog[t][i].fault # "postMessage")
                => TerminalWasPosted(t, callLog[t][i])
         /\ EveryCallKept(t)
         /\ (config[t].trackInteractions /\ ~isCompleted[t]) =>
              LET w == Step("none", [op |-> "none"])
                  after == TrackInteraction(w, t, 0)
              IN /\ after.state[t].totalInteractions = state[t].totalInteractions + 1
                 /\ Len(after.state[t].interactions) = Len(state[t].interactions) + 1
                 /\ after.posted = posted
                 /\ after.received = received
         /\ (config[t].trackQuestions /\ ~isCompleted[t]) =>
              \A q \in QuestionIds :
                LET w == Step("none", [op |-> "none"])
                    after == StartQuestion(w, t, q, 0)
                IN /\ Len(after.state[t].questions) = Len(state[t].questions) + 1
                   /\ after.posted = posted
                   /\ after.received = received

\* C33: with trackInteractions off trackInteraction, and with trackQuestions
\* off startQuestion, answerQuestion and skipQuestion, return the world they
\* were called in (no state change, no event, no write); with
\* sendDetailedEvents off the tracking calls still append their event, keep
\* the counters and write the record but emit nothing, so that the tracker
\* emits no BLOCK_INTERACTION or BLOCK_QUESTION event, while its 'started',
\* 'completed' and 'abandoned' session events reach the channel when
\* postMessage works.
TogglesGateTracking == []TogglesRespected /\ [][QuietTrackingStep]_vars

\* A tracker without trackQuestions and sendDetailedEvents that tracked an
\* interaction and completed: the interaction is in its state, and its
\* 'started' and 'completed' events are on the channel with nothing else but
\* the legacy event.
QuietTrackerCompleted ==
  \E t \in Live :
    /\ ~config[t].sendDetailedEvents
    /\ ~config[t].trackQuestions
    /\ config[t].trackInteractions
    /\ state[t].totalInteractions = 1
    /\ state[t].questions = << >>
    /\ SentBy(posted, t, IsStartedEvent) = 1
    /\ SentBy(posted, t, IsCompletedEvent) = 1
    /\ Len(PostedBy(t)) = 3

\* What C38 says of a step: an abandon call that passed its guard leaves
\* localStorage as it was and the tracker ended.
AbandonKeepsRecordStep ==
  \A t \in Trackers :
    CallStep(t, {"abandon"}) => localStorage' = localStorage /\ isCompleted'[t]

\* Tracker t passed the guard of abandon.
WasAbandoned(t) == CallsOf(t, "abandon") # << >>

\* The configuration of a new tracker for the block and the key of tracker t.
SameBlockConfig(t) ==
  [NoConfig EXCEPT !.blockId = Some(config[t].blockId), !.persistSession = Some(TRUE),
                   !.sessionStorageKey = Some(config[t].sessionStorageKey)]

\* The record of the abandoned tracker t is adopted by the tracker u
\* constructed now for the same block: u starts with the recorded session, is
\* not ended, and tracks.
AbandonedIsRestored(t, u) ==
  LET key == config[t].sessionStorageKey
      built == Construct(Step("none", [op |-> "none"]), u, SameBlockConfig(t))
      tracked == TrackInteraction(built, u, 0)
  IN (key \in DOMAIN localStorage /\ localStorage[key] = Stringify(state[t])) =>
       /\ built.state[u].sessionId = state[t].sessionId
       /\ built.state[u].interactions = state[t].interactions
       /\ built.state[u].questions = state[t].questions
       /\ built.state[u] = Parse(localStorage[key])
       /\ ~built.isCompleted[u]
       /\ tracked.state[u].totalInteractions = state[t].totalInteractions + 1
       /\ Len(tracked.state[u].interactions) = Len(state[t].interactions) + 1
       /\ tracked.localStorage[key] = Stringify(tracked.state[u])

AbandonedStaysRestorable ==
  \A t \in Live :
    (WasAbandoned(t) /\ config[t].persistSession)
      => \A u \in Trackers \ {t} : AbandonedIsRestored(t, u)

\* C38: abandon leaves localStorage as it was, and while the record of an
\* abandoned persisting tracker holds its session, a tracker constructed for
\* the same block starts with that session (same sessionId, same events), is
\* not ended, and its tracking calls append to it and persist it.
AbandonKeepsSession == []AbandonedStaysRestorable /\ [][AbandonKeepsRecordStep]_vars

\* A session with a persisted interaction was abandoned, and a tracker
\* constructed afterwards carries it on as a session that is not ended.
AbandonedSessionResumed ==
  \E t \in Live, u \in Live :
    /\ t # u
    /\ WasAbandoned(t)
    /\ isCompleted[t]
    /\ callLog[u][1].call > CallsOf(t, "abandon")[1].call
    /\ restored[u].sessionId = state[t].sessionId
    /\ restored[u].totalInteractions = 1
    /\ state[u] = restored[u]
    /\ ~isCompleted[u]

\* What C39 says of a step: a constructor leaves the tracker without
\* listeners, hands no callback anything, and puts the 'started' event on the
\* channel unless postMessage threw.
StartedToChannelStep ==
  \A t \in Trackers :
    CallStep(t, {"constructor"}) =>
      /\ OnlyCall(t, "constructor")
      /\ eventSenders[t] = << >>
      /\ eventSenders'[t] = << >>
      /\ received' = received
      /\ IF ThisCall(t).fault = "postMessage" THEN posted' = posted
         ELSE /\ Len(posted') = Len(posted) + 1
              /\ SubSeq(posted', 1, Len(posted)) = posted
              /\ posted'[Len(posted')].from = t
              /\ IsStartedEvent(posted'[Len(posted')])

StartedOnlyOnChannel ==
  /\ \A cb \in Callbacks : \A d \in Range(received[cb]) : ~IsStartedEvent(d)
  /\ \A d \in Range(posted) :
       IsStartedEvent(d) => /\ d.from \in Live
                            /\ callLog[d.from][1].op = "constructor"
                            /\ callLog[d.from][1].call = d.call
                            /\ callLog[d.from][1].fault # "postMessage"
  /\ \A t \in Trackers :
       \A i \in 1..Len(callLog[t]) :
         callLog[t][i].op = "addEventListener" => i > 1 /\ callLog[t][1].op = "constructor"

\* C39: the constructor emits 'started' while the tracker has no listener: the
\* step of a constructor hands no callback anything and leaves the listener
\* list empty, every addEventListener call of a tracker comes after its
\* constructor, and so every 'started' event is on the cross-frame channel,
\* sent by a constructor, and none is in what a callback received.
StartedBeforeListeners == []StartedOnlyOnChannel /\ [][StartedToChannelStep]_vars

\* A tracker whose 'started' event is on the channel and whose listener,
\* registered afterwards, received a later event and no 'started' event.
ListenerMissedStarted ==
  \E t \in Live :
    /\ "cbLog" \in Range(eventSenders[t])
    /\ SentBy(posted, t, IsStartedEvent) = 1
    /\ SentBy(received["cbLog"], t, LAMBDA d : ~IsStartedEvent(d)) >= 1
    /\ SentBy(received["cbLog"], t, IsStartedEvent) = 0

\* C40: a store id is in the registry exactly when an 'editor:init' message
\* for it has been posted to the parent window.
RegisteredIffAnnounced ==
  \A i \in StoreIds :
    i \in DOMAIN registeredContents <=> InitsOf(posted, i) # << >>

\* ------------------------------------------------- the editable elements
\* Where an element posts: the parent window when there is one, and its own.
Channels == IF framed THEN {"parent", "window"} ELSE {"window"}

\* What element e posted to channel `to`, in order.
PostedTo(e, to) == SelectSeq(outbox, LAMBDA m : m.from = e /\ m.to = to)

IsRegistration(m) == m.message.type \in {"EDITABLE_REGISTER", "EDITABLE_UNREGISTER"}

RegistrationsOf(e, to) == SelectSeq(PostedTo(e, to), IsRegistration)

\* REGISTER, UNREGISTER, REGISTER, ... with every UNREGISTER carrying the id
\* of the REGISTER before it.
Alternates(seq) ==
  \A i \in 1..Len(seq) :
    IF i % 2 = 1 THEN seq[i].message.type = "EDITABLE_REGISTER"
    ELSE /\ seq[i].message.type = "EDITABLE_UNREGISTER"
         /\ seq[i].message.id = seq[i - 1].message.id

\* The REGISTER message announces the props p.
Announces(message, p) ==
  /\ message.type = "EDITABLE_REGISTER"
  /\ message.id = p.id
  /\ message.filePath = Coalesce(p.filePath, DefaultFilePath)
  /\ message.propertyPath = p.propertyPath
  /\ message.text = TextOf(p.children)

\* A host message changes no unmounted element and makes none post.
UnmountedIsDeaf ==
  \A data \in HostMessages :
    LET pg == Dispatch(Page, listeners, 1, data)
    IN \A e \in Elements :
         ~elements[e].mounted =>
           /\ pg.elements[e] = elements[e]
           /\ \A i \in (Len(outbox) + 1)..Len(pg.outbox) : pg.outbox[i].from # e

RegistrationFollowsMount ==
  /\ \A m \in Range(outbox) : m.to \in Channels
  /\ \A e \in Elements, to \in Channels :
       LET regs == RegistrationsOf(e, to)
           all == PostedTo(e, to)
       IN /\ Alternates(regs)
          /\ elements[e].mounted <=> Len(regs) % 2 = 1
          /\ elements[e].mounted <=> e \in Range(listeners)
          /\ elements[e].mounted =>
               /\ IsDefined(elements[e].effect)
               /\ ~DepsChanged(Get(elements[e].effect), elements[e].props)
               /\ Announces(regs[Len(regs)].message, elements[e].props)
          /\ (~elements[e].mounted /\ all # << >>)
               => all[Len(all)].message.type = "EDITABLE_UNREGISTER"
  /\ UnmountedIsDeaf

\* A step in which an element is unmounted posts its UNREGISTER, and one in
\* which a dependency of its effect changes posts UNREGISTER and REGISTER.
RegistrationStep ==
  \A e \in Elements, to \in Channels :
    LET before == RegistrationsOf(e, to)
        after == RegistrationsOf(e, to)'
    IN /\ (elements[e].mounted /\ ~elements'[e].mounted)
            => Len(after) = Len(before) + 1
       /\ (elements[e].mounted /\ elements'[e].mounted)
            => Len(after) = IF DepsChanged(elements[e].props, elements'[e].props)
                            THEN Len(before) + 2 ELSE Len(before)

\* C34: on each channel, the EDITABLE_REGISTER and EDITABLE_UNREGISTER messages
\* of an element alternate, starting with the REGISTER of its mount; every
\* UNREGISTER carries the id of the REGISTER before it; the element is mounted
\* exactly while the last of them is a REGISTER, which announces its current
\* id, filePath, propertyPath and text (a change of one of them posts
\* UNREGISTER, then REGISTER); an unmount posts the UNREGISTER, which is then
\* the last message of the element, and an unmounted element has no message
\* listener: a host message changes nothing of it and makes it post nothing.
RegisterUnregisterAlternate == []RegistrationFollowsMount /\ [][RegistrationStep]_vars

\* An element registered as a, re-registered as b when its id changed, and
\* was unmounted.
ReRegisteredAndUnmounted ==
  \E e \in Elements :
    /\ ~elements[e].mounted
    /\ LET regs == RegistrationsOf(e, "window")
       IN /\ Len(regs) = 4
          /\ regs[1].message.id = "a"
          /\ regs[2].message.id = "a"
          /\ regs[3].message.id = "b"
          /\ regs[4].message.id = "b"
          /\ regs[4].message.type = "EDITABLE_UNREGISTER"

IsSave(m) == m.message.type = "EDITABLE_SAVE_INLINE"

SavesOf(e, to) == SelectSeq(PostedTo(e, to), IsSave)

\* The EDITABLE_SAVE_INLINE message of element el as it is before the step.
SavesEdit(message, el) ==
  /\ message.type = "EDITABLE_SAVE_INLINE"
  /\ message.id = el.props.id
  /\ message.filePath = Coalesce(el.props.filePath, DefaultFilePath)
  /\ message.propertyPath = el.props.propertyPath
  /\ message.oldText = TextOf(el.props.children)
  /\ message.newText = el.editValue

\* A step posts at most one EDITABLE_SAVE_INLINE of an element to a channel,
\* and one that does finds the element inline editing and leaves it viewing.
SaveStep ==
  \A e \in Elements, to \in Channels :
    LET before == SavesOf(e, to)
        after == SavesOf(e, to)'
    IN /\ Len(after) <= Len(before) + 1
       /\ Len(after) = Len(before) + 1 =>
            /\ InputRendered(e)
            /\ elements'[e] = [elements[e] EXCEPT !.isInlineEditing = FALSE]
            /\ SavesEdit(after[Len(after)].message, elements[e])
            /\ \A other \in Channels : Len(SavesOf(e, other)') = Len(SavesOf(e, other)) + 1

\* The page after the confirmation: one more message of e on every channel,
\* the save of its edit, and e viewing.
Confirmed(pg, e) ==
  /\ pg.elements = [elements EXCEPT ![e].isInlineEditing = FALSE]
  /\ pg.listeners = listeners
  /\ Len(pg.outbox) = Len(outbox) + Cardinality(Channels)
  /\ SubSeq(pg.outbox, 1, Len(outbox)) = outbox
  /\ \A i \in (Len(outbox) + 1)..Len(pg.outbox) :
       /\ pg.outbox[i].from = e
       /\ SavesEdit(pg.outbox[i].message, elements[e])
  /\ {pg.outbox[i].to : i \in (Len(outbox) + 1)..Len(pg.outbox)} = Channels

ConfirmationSaves ==
  \A e \in Elements :
    InputRendered(e) =>
      /\ Confirmed(HandleKeyDown(Page, e, "Enter"), e)
      /\ Confirmed(HandleBlur(Page, e), e)

\* C35: Enter and the loss of focus, on an element that is inline editing, each
\* post one EDITABLE_SAVE_INLINE to every channel, with the element's id and
\* paths, the text of its children as oldText and the value of the input as
\* newText, and leave the element viewing in the same step; no step posts a
\* second one, and every EDITABLE_SAVE_INLINE ends the inline editing it
\* belongs to, so an edit has at most one.
ConfirmationSavesOnce == []ConfirmationSaves /\ [][SaveStep]_vars

\* An element that showed Hi, was edited to Yo and confirmed: one save, and
\* the element is viewing.
EditConfirmed ==
  \E e \in Elements :
    /\ TagRendered(e)
    /\ elements[e].editValue = "Yo"
    /\ elements[e].props.children = Text("Hi")
    /\ Len(SavesOf(e, "window")) = 1
    /\ SavesOf(e, "window")[1].message.oldText = "Hi"
    /\ SavesOf(e, "window")[1].message.newText = "Yo"

\* The latest event is key `key` pressed in the input of element e.
Pressed(e, key) == lastEvent = Event("keydown", e, key)

\* What C36 says of a step: Escape in the input of an element leaves it
\* viewing with an empty edit value, and nothing else changes: the outbox, the
\* listeners and the other elements are as they were.
EscapeStep ==
  \A e \in Elements :
    Pressed(e, "Escape")' =>
      /\ InputRendered(e)
      /\ TagRendered(e)'
      /\ elements' = [elements EXCEPT ![e].isInlineEditing = FALSE, ![e].editValue = ""]
      /\ outbox' = outbox
      /\ listeners' = listeners

\* A step that ends the inline editing of a mounted element either posts the
\* save of the edit or, the cancel, posts nothing and empties the edit value.
EditEndsStep ==
  \A e \in Elements :
    (InputRendered(e) /\ TagRendered(e)') =>
      \/ /\ Len(SavesOf(e, "window")') = Len(SavesOf(e, "window")) + 1
         /\ elements'[e].editValue = elements[e].editValue
         /\ lastEvent' \in {Event("keydown", e, "Enter"), Event("blur", e, Undefined)}
      \/ /\ outbox' = outbox
         /\ elements'[e].editValue = ""
         /\ Pressed(e, "Escape")'

\* C36: Escape pressed while an element is inline editing returns it to
\* viewing with the edit value '' and posts nothing; the edit it ends has no
\* EDITABLE_SAVE_INLINE, a save being posted only by the step that ends an
\* edit with Enter or the loss of focus.
EscapeCancels == [][EscapeStep /\ EditEndsStep]_vars

\* An element that was inline editing when Escape was pressed: it is viewing,
\* its edit value is empty and it has posted no save.
EditCancelled ==
  \E e \in Elements :
    /\ Pressed(e, "Escape")
    /\ TagRendered(e)
    /\ elements[e].editValue = ""
    /\ elements[e].props.children = Text("Hi")
    /\ SavesOf(e, "window") = << >>

\* Element el switched to inline editing, seeded with the text of its children.
Editing(el) ==
  [el EXCEPT !.isInlineEditing = TRUE, !.editValue = TextOf(el.props.children)]

\* The latest event is the host message EDITABLE_START_INLINE_EDIT for id i.
Started(i) ==
  lastEvent = Event("message", "", [type |-> "EDITABLE_START_INLINE_EDIT", id |-> i])

StartInlineEditStep ==
  \A i \in ElementIds :
    Started(i)' =>
      /\ elements' = [e \in Elements |->
                        IF elements[e].mounted /\ elements[e].props.id = i
                        THEN Editing(elements[e]) ELSE elements[e]]
      /\ outbox' = outbox
      /\ listeners' = listeners

ClickStep ==
  \A e \in Elements :
    lastEvent' = Event("click", e, Undefined) =>
      /\ elements' = IF elements[e].isEditMode /\ ~elements[e].isInlineEditing
                     THEN [elements EXCEPT ![e] = Editing(elements[e])] ELSE elements
      /\ outbox' = outbox
      /\ listeners' = listeners

\* handleClick on an element that is inline editing or not in edit mode.
ClickGuarded ==
  \A e \in Elements :
    (elements[e].mounted /\ (elements[e].isInlineEditing \/ ~elements[e].isEditMode))
      => HandleClick(Page, e) = Page

\* C37: the host message EDITABLE_START_INLINE_EDIT for an id switches the
\* mounted elements with that id, in edit mode or not, to inline editing with
\* the text of their children as edit value, and changes nothing else; a
\* click switches the element to inline editing, seeded likewise, when it is
\* in edit mode and not inline editing, and changes nothing otherwise.
InlineEditStarts == []ClickGuarded /\ [][StartInlineEditStep /\ ClickStep]_vars

\* The host started the inline edit of a: the element with that id, not in
\* edit mode, is editing its text, the element with id b is not.
StartedById ==
  \E e, other \in Elements :
    /\ Started("a")
    /\ elements[e].mounted /\ elements[e].props.id = "a"
    /\ ~elements[e].isEditMode
    /\ elements[e].isInlineEditing /\ elements[e].editValue = "Hi"
    /\ elements[other].mounted /\ elements[other].props.id = "b"
    /\ ~elements[other].isInlineEditing

====
